---- MODULE Spec2Model ----
(***************************************************************************)
(* Model of the vived request client (vived_api/src/client.rs): the permit *)
(* pool (a tokio Semaphore), the retry loop of Client::handle_ratelimit    *)
(* and the response classification of Client::make_request; and of the     *)
(* websocket relay (vived_websocket/src/client.rs): connect_to_websocket,  *)
(* event_loop and the receivers of its broadcast channel.                  *)
(*                                                                         *)
(* The specifications of the request client share its actions:             *)
(*   Spec          the pool: every caller, answers 200 and 429             *)
(*   CallSpec      the call: fewer callers, every kind of answer           *)
(*   RateSpec      the pool, with the requests of the last 30 s counted    *)
(*   ClassifySpec  the closure of make_request on every answer             *)
(*   AbandonSpec   the call, with callers that drop its future             *)
(*   NewSpec       Client::new on every token                              *)
(*   ColorSpec     the conversions of Color on sampled inputs              *)
(*   MessageSpec   the constructors and builder methods of MessageCreate   *)
(* and those of the relay share the relay's:                               *)
(*   RelaySpec     the loop: every kind of item, one receiver              *)
(*   FanoutSpec    the channel: every receiver, event frames               *)
(*                                                                         *)
(* Calls run on a multi-threaded runtime: a step is one access to shared   *)
(* state (the semaphore) together with the local work around it, and the   *)
(* steps of different calls interleave freely.                             *)
(*                                                                         *)
(* Time is kept as remaining seconds of each running timer; Advance lets   *)
(* time pass up to the next expiry.  A sleep lasts at least its duration:  *)
(* an expired timer fires at any later moment.                             *)
(***************************************************************************)
EXTENDS Integers, Sequences, FiniteSets, TLC

\* ------------------------------------------------------------------ bounds
\* Concurrent make_request calls (one call per caller).
NumCallers == 4
\* 429 responses the server gives in one run.
MaxRateLimited == 2
\* Callers of the call model.
RichCallers == 2
\* Pool size.  The source sets 30 (client.rs:12); the model runs a small pool
\* so that callers outnumber permits.
CONCURRENT_REQUEST == 3
\* Receivers of the relay's events.
NumReceivers == 2
\* Items the transport gives the relay before it ends.
MaxFrames == 4
\* The largest event_capacity given to connect_to_websocket.
MaxCapacity == 3
\* The longest token given to Client::new, in bytes.
MaxTokenLen == 2
\* Values a colour channel takes, out of ChannelSamples.
NumChannelValues == 4
\* The longest list of reply ids of a MessageCreate.
MaxReplies == 2

\* ------------------------------------------------------- program constants
LOCK_HOLD_DURATION == 30
INITIAL_BACKOFF == 20
TOO_MANY_REQUESTS == 429

Callers == 1..NumCallers

\* ------------------------------------------------- responses and decoding
\* A header value is a sequence of bytes.
HeaderBytes ==
    { <<53>>,            \* "5"
      <<48>>,            \* "0"
      <<43, 53>>,        \* "+5"
      <<45, 53>>,        \* "-5"
      <<53, 32>>,        \* "5 "
      <<97>>,            \* "a"
      <<>>,              \* ""
      <<233>> }          \* a byte that is not visible ASCII

\* HeaderValue::to_str: only visible ASCII (and tab) converts.
to_str_ok(h) == \A i \in 1..Len(h) : (h[i] >= 32 /\ h[i] <= 126) \/ h[i] = 9

IsDigit(b) == b >= 48 /\ b <= 57

RECURSIVE DigitsValue(_, _)
DigitsValue(s, acc) ==
    IF s = <<>> THEN acc ELSE DigitsValue(Tail(s), acc * 10 + (Head(s) - 48))

\* str::parse::<u64>: an optional '+' and then one or more decimal digits.
\* None when the text is not such a number.
parse_u64(h) ==
    LET s == IF h # <<>> /\ h[1] = 43 THEN Tail(h) ELSE h
    IN  IF s # <<>> /\ \A i \in 1..Len(s) : IsDigit(s[i])
        THEN DigitsValue(s, 0)
        ELSE -1

\* Mutant: a Retry-After that does not parse counts as zero seconds.
retry_after_of_default(header) ==
    IF header.present /\ to_str_ok(header.bytes) /\ parse_u64(header.bytes) >= 0
    THEN parse_u64(header.bytes)
    ELSE 0

\* The Retry-After lookup of make_request: get, to_str().ok(), parse().ok().
retry_after_of(header) ==
    IF ~header.present THEN -1
    ELSE IF ~to_str_ok(header.bytes) THEN -1
    ELSE parse_u64(header.bytes)

NoHeader == [present |-> FALSE, bytes |-> <<>>]
Headers == {NoHeader} \cup [present : {TRUE}, bytes : HeaderBytes]

FieldStates == {"absent", "string", "number"}
MetaStates == {"absent", "null", "value"}

\* A response body: unreadable (text() fails), not JSON, or a JSON object
\* described by the fields the decoders look at.
Bodies ==
    [readable : {FALSE}, json : {FALSE}, code : {"absent"}, message : {"absent"},
     meta : {"absent"}, payload : {FALSE}]
    \cup
    [readable : {TRUE}, json : {FALSE}, code : {"absent"}, message : {"absent"},
     meta : {"absent"}, payload : {FALSE}]
    \cup
    [readable : {TRUE}, json : {TRUE}, code : FieldStates, message : FieldStates,
     meta : MetaStates, payload : BOOLEAN]

Endpoints == {"GetChannel", "MessageDelete"}

\* Endpoint::from_raw: GetChannel needs its payload field, MessageDelete
\* accepts every body.
from_raw_ok(endpoint, body) ==
    IF endpoint = "MessageDelete" THEN TRUE
    ELSE body.json /\ body.payload

\* Mutant: meta is required too.
guilded_error_ok_needs_meta(body) ==
    body.json /\ body.code = "string" /\ body.message = "string" /\ body.meta = "value"

\* serde_json::from_str::<GuildedError>: code and message are strings,
\* meta is optional.
guilded_error_ok(body) ==
    body.json /\ body.code = "string" /\ body.message = "string"

guilded_error_meta(body) == IF body.meta = "value" THEN "Some" ELSE "None"

NoBody ==
    [readable |-> FALSE, json |-> FALSE, code |-> "absent", message |-> "absent",
     meta |-> "absent", payload |-> FALSE]

TransportFailure ==
    [transport_ok |-> FALSE, status |-> 0, retry_after |-> NoHeader, body |-> NoBody]

Statuses == {200, 204, 299, 300, 400, 404, 429, 500}

AllResponses ==
    {TransportFailure}
    \cup [transport_ok : {TRUE}, status : Statuses,
          retry_after : Headers, body : Bodies]

Return(kind, meta) == [tag |-> "Return", value |-> kind, meta |-> meta, wait |-> 0]
RetryAfter(n) == [tag |-> "RetryAfter", value |-> "-", meta |-> "None", wait |-> n]
RetryWithBackoff == [tag |-> "RetryWithBackoff", value |-> "-", meta |-> "None", wait |-> 0]

\* Mutant: the success range starts one too high.
is_success_above_200(status) == status > 200 /\ status <= 299

\* StatusCode::is_success: 200..=299.
is_success(status) == status >= 200 /\ status <= 299

\* Mutant: a 429 is returned to the caller as an error.
classify_throttle_is_error(endpoint, resp) ==
    IF ~resp.transport_ok THEN Return("Request", "None")
    ELSE IF is_success(resp.status) THEN
        IF ~resp.body.readable THEN Return("Request", "None")
        ELSE IF from_raw_ok(endpoint, resp.body) THEN Return("Ok", "None")
        ELSE Return("JsonError", "None")
    ELSE
        IF ~resp.body.readable THEN Return("Request", "None")
        ELSE IF guilded_error_ok(resp.body)
        THEN Return("Guilded", guilded_error_meta(resp.body))
        ELSE Return("JsonError", "None")

\* Mutant: every error status is retried with backoff.
classify_retry_on_error(endpoint, resp) ==
    IF ~resp.transport_ok THEN Return("Request", "None")
    ELSE IF is_success(resp.status) THEN
        IF ~resp.body.readable THEN Return("Request", "None")
        ELSE IF from_raw_ok(endpoint, resp.body) THEN Return("Ok", "None")
        ELSE Return("JsonError", "None")
    ELSE IF resp.status = TOO_MANY_REQUESTS THEN
        IF retry_after_of(resp.retry_after) >= 0
        THEN RetryAfter(retry_after_of(resp.retry_after))
        ELSE RetryWithBackoff
    ELSE RetryWithBackoff

\* The closure of make_request from the answer of client.execute on.
classify(endpoint, resp) ==
    IF ~resp.transport_ok THEN Return("Request", "None")
    ELSE IF is_success(resp.status) THEN
        IF ~resp.body.readable THEN Return("Request", "None")
        ELSE IF from_raw_ok(endpoint, resp.body) THEN Return("Ok", "None")
        ELSE Return("JsonError", "None")
    ELSE IF resp.status = TOO_MANY_REQUESTS THEN
        IF retry_after_of(resp.retry_after) >= 0
        THEN RetryAfter(retry_after_of(resp.retry_after))
        ELSE RetryWithBackoff
    ELSE
        IF ~resp.body.readable THEN Return("Request", "None")
        ELSE IF guilded_error_ok(resp.body)
        THEN Return("Guilded", guilded_error_meta(resp.body))
        ELSE Return("JsonError", "None")

\* ------------------------------------------------------------------- state
VARIABLES
    permits,            \* Semaphore: permits available in the pool
    waiters,            \* Semaphore: FIFO queue of [task, needed] waiters
    pc,                 \* where each call is in make_request/handle_ratelimit
    permit,             \* who holds the call's own permit
    lockdown_permits,   \* handle_ratelimit: lockdown_permits (None = -1)
    want,               \* permits the pending acquire_many_owned asks for
    backoff_amount,     \* handle_ratelimit: backoff_amount
    timer,              \* seconds left of the call's sleep or cooldown
    result,             \* what make_request returned
    sent,               \* requests the call handed to client.execute
    hits,               \* 429 answers the call got
    last,               \* the last answer the call got
    forgotten,          \* permits dropped by OwnedSemaphorePermit::forget
    gate_seen,          \* throttle waits in progress when the call got its permit
    rate_limited,       \* 429 answers the server has given
    backoffs,           \* 429 answers without a usable Retry-After the call got
    metered,            \* whether the requests sent are being counted
    window,             \* seconds since each request of the last LOCK_HOLD_DURATION
    cl_endpoint,        \* classification alone: the endpoint
    cl_resp,            \* classification alone: the response
    cl_action,          \* classification alone: the ApiResultAction
    event_capacity,     \* connect_to_websocket: event_capacity
    loop,               \* where event_loop is
    frame,              \* what read.next() gave last
    reads,              \* items read.next() has given
    pings,              \* ping frames read
    pongs,              \* pong frames written to the transport
    wrote,              \* the frame written to the transport last
    logged,             \* errors the loop has logged, by kind
    log,                \* events the broadcast channel has taken, oldest first
    sub,                \* each receiver: not created, active or dropped
    next,               \* each receiver: events of log it is past
    out,                \* each receiver: what recv gave last
    token,              \* Client::new: the bytes of its token
    client,             \* Client::new: not called, Ok, or the error returned
    c_in,               \* Color: the colour, number or string converted
    c_out,              \* Color: the conversion made and its result
    msg                 \* MessageCreate: the value being built

gov_vars == <<permits, waiters, pc, permit, lockdown_permits, want,
              backoff_amount, timer, result, sent, hits, backoffs, last, forgotten,
              gate_seen, rate_limited>>
cl_vars == <<cl_endpoint, cl_resp, cl_action>>
meter_vars == <<metered, window>>
ws_vars == <<event_capacity, loop, frame, reads, pings, pongs, wrote, logged,
            log, sub, next, out>>
new_vars == <<token, client>>
color_vars == <<c_in, c_out>>
msg_vars == <<msg>>
vars == <<gov_vars, cl_vars, meter_vars, ws_vars, new_vars, color_vars, msg_vars>>

NoAction == [tag |-> "None", value |-> "-", meta |-> "None", wait |-> 0]
NoResponse ==
    [transport_ok |-> FALSE, status |-> -1, retry_after |-> NoHeader, body |-> NoBody]

GoodBody ==
    [readable |-> TRUE, json |-> TRUE, code |-> "absent", message |-> "absent",
     meta |-> "absent", payload |-> TRUE]
ErrorBody ==
    [readable |-> TRUE, json |-> TRUE, code |-> "string", message |-> "string",
     meta |-> "value", payload |-> FALSE]
NotJson ==
    [readable |-> TRUE, json |-> FALSE, code |-> "absent", message |-> "absent",
     meta |-> "absent", payload |-> FALSE]

Answer(status, header, body) ==
    [transport_ok |-> TRUE, status |-> status, retry_after |-> header, body |-> body]

\* The answers of the pool model: success, or 429 without a Retry-After.
PoolAnswers ==
    { Answer(200, NoHeader, GoodBody),
      Answer(429, NoHeader, NotJson) }

\* The answers of the call model: one of each kind make_request tells apart.
ServerAnswers ==
    { TransportFailure,
      Answer(200, NoHeader, GoodBody),
      Answer(200, NoHeader, NotJson),
      Answer(429, NoHeader, NotJson),
      Answer(429, [present |-> TRUE, bytes |-> <<53>>], NotJson),
      Answer(429, [present |-> TRUE, bytes |-> <<97>>], NotJson),
      Answer(404, NoHeader, ErrorBody) }

\* Every call of the pool and call models runs this endpoint.
CallEndpoint == "GetChannel"

\* ------------------------------------------------------------ relay: data
\* Receivers of the broadcast channel: the one connect_to_websocket returns
\* and the ones made from it.
Receivers == 1..NumReceivers

\* The text of a frame, described by what the decoder looks at: whether it
\* is JSON, its tag t, and in its payload d the server id and whether the
\* message has the fields of Message and of MessageDeleteData.
Tags == {"ChatMessageCreated", "ChatMessageUpdated", "ChatMessageDeleted"}
ServerIds == {"S1", "S2"}

NoText ==
    [json |-> FALSE, t |-> "absent", d |-> FALSE, server |-> "absent",
     message |-> FALSE, deleted |-> FALSE]

Texts ==
    {NoText}
    \cup [json : {TRUE}, t : Tags \cup {"absent", "Unknown"}, d : {FALSE},
          server : {"absent"}, message : {FALSE}, deleted : {FALSE}]
    \cup [json : {TRUE}, t : Tags \cup {"absent", "Unknown"}, d : {TRUE},
          server : ServerIds \cup {"absent"}, message : BOOLEAN, deleted : BOOLEAN]

\* What read.next() gives: a read error, or a message: text, binary (bytes
\* that are UTF-8 or not), ping, or another kind (pong, close, raw frame).
Item(kind, payload, utf8, text) ==
    [kind |-> kind, payload |-> payload, utf8 |-> utf8, text |-> text]

NoFrame == Item("none", 0, FALSE, NoText)
EndOfStream == Item("end", 0, FALSE, NoText)
ReadError == Item("error", 0, FALSE, NoText)
OtherFrame == Item("other", 0, FALSE, NoText)
Ping(payload) == Item("ping", payload, FALSE, NoText)
Pong(payload) == Item("pong", payload, FALSE, NoText)
Text(text) == Item("text", 0, TRUE, text)
Binary(utf8, text) == Item("binary", 0, utf8, text)

\* A GuildedEvent, and the failure of the decoder.
Event(tag, server, message) == [tag |-> tag, server_id |-> server, message |-> message]
DecodeError == [tag |-> "Err", server_id |-> "-", message |-> "-"]

\* Mutant: the tag is not looked at: every event is a ChatMessageCreated.
decode_event_any_tag(text) ==
    IF ~text.json \/ ~text.d \/ text.server = "absent" \/ ~text.message
    THEN DecodeError
    ELSE Event("ChatMessageCreated", text.server, "Message")

\* serde_json::from_str::<GuildedEvent>: the enum is tagged by t with its
\* content in d; ChatMessageCreated and ChatMessageUpdated hold a serverId
\* and a Message, ChatMessageDeleted a serverId and a MessageDeleteData.
decode_event(text) ==
    IF ~text.json \/ text.t \notin Tags \/ ~text.d \/ text.server = "absent"
    THEN DecodeError
    ELSE IF text.t = "ChatMessageDeleted"
    THEN (IF text.deleted THEN Event(text.t, text.server, "MessageDeleteData")
          ELSE DecodeError)
    ELSE (IF text.message THEN Event(text.t, text.server, "Message")
          ELSE DecodeError)

\* The errors the loop logs: a failed read (63), bytes that are not UTF-8
\* (73), a failed pong write (79), a message of another kind (84), a text
\* that does not decode (92), an event no receiver took (101).
Diagnostics == {"read", "utf8", "pong", "kind", "decode", "send"}

\* What recv gives a receiver.
NoOutput == [tag |-> "none", event |-> DecodeError, missed |-> 0]
Received(event) == [tag |-> "Ok", event |-> event, missed |-> 0]
Lagged(n) == [tag |-> "Lagged", event |-> DecodeError, missed |-> n]
Closed == [tag |-> "Closed", event |-> DecodeError, missed |-> 0]

\* broadcast::channel rounds the capacity up to a power of two.
RECURSIVE power_of_two_from(_, _)
power_of_two_from(p, n) == IF p >= n THEN p ELSE power_of_two_from(2 * p, n)

next_power_of_two(n) == power_of_two_from(1, n)

\* The slots of the channel.
ChannelCap == next_power_of_two(event_capacity)

\* The relay before connect_to_websocket is called.
RelayIdle ==
    /\ event_capacity = 1
    /\ loop = "none"
    /\ frame = NoFrame
    /\ reads = 0
    /\ pings = 0
    /\ pongs = 0
    /\ wrote = NoFrame
    /\ logged = [k \in Diagnostics |-> 0]
    /\ log = <<>>
    /\ sub = [s \in Receivers |-> "none"]
    /\ next = [s \in Receivers |-> 0]
    /\ out = [s \in Receivers |-> NoOutput]

\* The bytes a token is made of: NUL, tab, line feed, space, "A", DEL and a
\* byte of a character that is not ASCII.
TokenBytes == {0, 9, 10, 32, 65, 127, 200}

RECURSIVE SeqsUpTo(_, _)
SeqsUpTo(S, n) ==
    IF n = 0 THEN {<<>>}
    ELSE LET shorter == SeqsUpTo(S, n - 1)
         IN  shorter \cup {Append(t, b) : t \in {u \in shorter : Len(u) = n - 1}, b \in S}

Tokens == SeqsUpTo(TokenBytes, MaxTokenLen)

\* "Bearer " (171).
BearerPrefix == <<66, 101, 97, 114, 101, 114, 32>>

\* Mutant: only the visible ASCII characters make a header value.
parse_header_value_visible_ascii(bytes) ==
    \A i \in 1..Len(bytes) : bytes[i] >= 32 /\ bytes[i] < 127

\* str::parse::<HeaderValue> (170-173, HeaderValue::from_str): every byte is
\* 32 or more and not DEL, or is a tab.
parse_header_value(bytes) ==
    \A i \in 1..Len(bytes) : (bytes[i] >= 32 /\ bytes[i] # 127) \/ bytes[i] = 9

\* No conversion of a colour is under way.
NoColorInput == [kind |-> "none", color |-> <<0, 0, 0>>, word |-> <<0, 0>>, hex |-> <<>>]
NoColorResult ==
    [op |-> "none", tag |-> "none", color |-> <<0, 0, 0>>, word |-> <<0, 0>>, hex |-> <<>>]
ColorIdle ==
    /\ c_in = NoColorInput
    /\ c_out = NoColorResult

\* No MessageCreate has been made.
NoMessage ==
    [made |-> FALSE, channel |-> "-",
     content |-> [some |-> FALSE, v |-> ""],
     embeds |-> [some |-> FALSE, v |-> <<>>],
     private |-> [some |-> FALSE, v |-> FALSE],
     silent |-> [some |-> FALSE, v |-> FALSE],
     reply_message_ids |-> [some |-> FALSE, v |-> <<>>]]
MessageIdle == msg = NoMessage

\* The client that Client::new has returned.
Constructed ==
    /\ token = <<>>
    /\ client = "Ok"

Init ==
    /\ permits = CONCURRENT_REQUEST
    /\ waiters = <<>>
    /\ pc = [c \in Callers |-> "idle"]
    /\ permit = [c \in Callers |-> "none"]
    /\ lockdown_permits = [c \in Callers |-> -1]
    /\ want = [c \in Callers |-> 0]
    /\ backoff_amount = [c \in Callers |-> 0]
    /\ timer = [c \in Callers |-> 0]
    /\ result = [c \in Callers |-> "-"]
    /\ sent = [c \in Callers |-> 0]
    /\ hits = [c \in Callers |-> 0]
    /\ last = [c \in Callers |-> NoResponse]
    /\ forgotten = 0
    /\ gate_seen = [c \in Callers |-> {}]
    /\ rate_limited = 0
    /\ backoffs = [c \in Callers |-> 0]
    /\ metered = FALSE
    /\ window = <<>>
    /\ RelayIdle
    /\ Constructed
    /\ ColorIdle
    /\ MessageIdle
    /\ cl_endpoint = "GetChannel"
    /\ cl_resp = NoResponse
    /\ cl_action = NoAction

\* --------------------------------------------------------------- semaphore
\* The sum of f over S.
RECURSIVE SumOver(_, _)
SumOver(S, f) ==
    IF S = {} THEN 0
    ELSE LET x == CHOOSE y \in S : TRUE IN f[x] + SumOver(S \ {x}, f)

\* batch_semaphore add_permits_locked: permits go to the oldest waiters, in
\* order, and to the pool only when the queue is empty.
RECURSIVE assign_permits(_, _)
assign_permits(q, k) ==
    IF k = 0 \/ q = <<>> THEN [queue |-> q, rem |-> k, woken |-> {}]
    ELSE IF Head(q).needed <= k
         THEN LET r == assign_permits(Tail(q), k - Head(q).needed)
              IN  [queue |-> r.queue, rem |-> r.rem,
                   woken |-> r.woken \cup {Head(q).task}]
         ELSE [queue |-> <<[Head(q) EXCEPT !.needed = @ - k]>> \o Tail(q),
               rem |-> 0, woken |-> {}]

\* Throttle waits in progress, other than c's own.
OpenWaits(c) ==
    {<<a, hits[a]>> : a \in {b \in Callers \ {c} : pc[b] = "sleep" /\ timer[b] > 0}}

\* A woken waiter returns from its acquire: acquire_owned with the call's
\* own permit, acquire_many_owned with the lockdown's permits.
wake_pc(pcf, woken) ==
    [c \in Callers |->
        IF c \notin woken THEN pcf[c]
        ELSE IF pcf[c] = "wait_permit" THEN "ready" ELSE "lock_granted"]

wake_permit(pf, woken) ==
    [c \in Callers |-> IF c \in woken /\ pc[c] = "wait_permit" THEN "call" ELSE pf[c]]

wake_seen(woken) ==
    [c \in Callers |->
        IF c \in woken /\ pc[c] = "wait_permit" THEN OpenWaits(c) ELSE gate_seen[c]]

\* ---------------------------------------------------------------- actions
\* Mutant: the call goes on without waiting for a permit.
Start_unlimited(c) ==
    /\ pc[c] = "idle"
    /\ \A b \in Callers : b < c => pc[b] # "idle"
    /\ permits' = IF permits >= 1 THEN permits - 1 ELSE 0
    /\ pc' = [pc EXCEPT ![c] = "ready"]
    /\ permit' = [permit EXCEPT ![c] = "call"]
    /\ gate_seen' = [gate_seen EXCEPT ![c] = OpenWaits(c)]
    /\ backoff_amount' = [backoff_amount EXCEPT ![c] = INITIAL_BACKOFF]
    /\ UNCHANGED <<waiters, lockdown_permits, want, timer, result, sent, hits, backoffs, last,
                   forgotten, rate_limited, cl_vars, meter_vars, ws_vars, new_vars, color_vars, msg_vars>>

\* Mutant: the backoff is shared: a call starts at the largest backoff any
\* call has reached.
Start_shared_backoff(c) ==
    /\ pc[c] = "idle"
    /\ \A b \in Callers : b < c => pc[b] # "idle"
    /\ IF permits >= 1
       THEN /\ permits' = permits - 1
            /\ waiters' = waiters
            /\ pc' = [pc EXCEPT ![c] = "ready"]
            /\ permit' = [permit EXCEPT ![c] = "call"]
            /\ gate_seen' = [gate_seen EXCEPT ![c] = OpenWaits(c)]
       ELSE /\ permits' = permits
            /\ waiters' = Append(waiters, [task |-> c, needed |-> 1])
            /\ pc' = [pc EXCEPT ![c] = "wait_permit"]
            /\ UNCHANGED <<permit, gate_seen>>
    /\ backoff_amount' =
         [backoff_amount EXCEPT ![c] =
            CHOOSE m \in {INITIAL_BACKOFF} \cup {backoff_amount[b] : b \in Callers} :
                /\ m >= INITIAL_BACKOFF
                /\ \A b \in Callers : m >= backoff_amount[b]]
    /\ UNCHANGED <<lockdown_permits, want, timer, result, sent, hits, backoffs, last,
                   forgotten, rate_limited, cl_vars, meter_vars, ws_vars, new_vars, color_vars, msg_vars>>

\* make_request is called: handle_ratelimit polls acquire_owned (199-202)
\* and sets backoff_amount and lockdown_permits (204-206).  Callers are
\* interchangeable and are numbered in the order they call.
Start(c) ==
    /\ pc[c] = "idle"
    /\ \A b \in Callers : b < c => pc[b] # "idle"
    /\ IF permits >= 1
       THEN /\ permits' = permits - 1
            /\ waiters' = waiters
            /\ pc' = [pc EXCEPT ![c] = "ready"]
            /\ permit' = [permit EXCEPT ![c] = "call"]
            /\ gate_seen' = [gate_seen EXCEPT ![c] = OpenWaits(c)]
       ELSE /\ permits' = permits
            /\ waiters' = Append(waiters, [task |-> c, needed |-> 1])
            /\ pc' = [pc EXCEPT ![c] = "wait_permit"]
            /\ UNCHANGED <<permit, gate_seen>>
    /\ backoff_amount' = [backoff_amount EXCEPT ![c] = INITIAL_BACKOFF]
    /\ UNCHANGED <<lockdown_permits, want, timer, result, sent, hits, backoffs, last,
                   forgotten, rate_limited, cl_vars, meter_vars, ws_vars, new_vars, color_vars, msg_vars>>

\* Mutant: a call that ends with an error gives its permit back at once.
Finish_no_cooldown_on_error(c, value) ==
    /\ pc' = [pc EXCEPT ![c] = "done"]
    /\ result' = [result EXCEPT ![c] = value]
    /\ forgotten' = forgotten + (IF lockdown_permits[c] >= 0 THEN lockdown_permits[c] ELSE 0)
    /\ lockdown_permits' = [lockdown_permits EXCEPT ![c] = -1]
    /\ backoff_amount' = [backoff_amount EXCEPT ![c] = 0]
    /\ backoffs' = [backoffs EXCEPT ![c] = 0]
    /\ permit' = [permit EXCEPT ![c] = "cooldown"]
    /\ timer' = [timer EXCEPT ![c] = IF value = "Ok" THEN LOCK_HOLD_DURATION ELSE 0]

\* Mutant: the call's own permit is forgotten with its lockdown.
Finish_forgets_own(c, value) ==
    /\ pc' = [pc EXCEPT ![c] = "done"]
    /\ result' = [result EXCEPT ![c] = value]
    /\ forgotten' = forgotten + 1
                      + (IF lockdown_permits[c] >= 0 THEN lockdown_permits[c] ELSE 0)
    /\ lockdown_permits' = [lockdown_permits EXCEPT ![c] = -1]
    /\ backoff_amount' = [backoff_amount EXCEPT ![c] = 0]
    /\ backoffs' = [backoffs EXCEPT ![c] = 0]
    /\ permit' = [permit EXCEPT ![c] = "none"]
    /\ timer' = [timer EXCEPT ![c] = 0]

\* The break of the loop and what follows it (210, 249-261): the lockdown
\* permits are forgotten, the call's permit goes to a detached task that
\* holds it for LOCK_HOLD_DURATION, and the value is returned.
Finish(c, value) ==
    /\ pc' = [pc EXCEPT ![c] = "done"]
    /\ result' = [result EXCEPT ![c] = value]
    /\ forgotten' = forgotten + (IF lockdown_permits[c] >= 0 THEN lockdown_permits[c] ELSE 0)
    /\ lockdown_permits' = [lockdown_permits EXCEPT ![c] = -1]
    /\ backoff_amount' = [backoff_amount EXCEPT ![c] = 0]
    /\ backoffs' = [backoffs EXCEPT ![c] = 0]
    /\ permit' = [permit EXCEPT ![c] = "cooldown"]
    /\ timer' = [timer EXCEPT ![c] = LOCK_HOLD_DURATION]

\* The closure cannot build the request (278): Return(Err(Request)).  The
\* endpoint builds the same request on every attempt, so a request that
\* cannot be built fails the first attempt.
BuildError(c) ==
    /\ pc[c] = "ready"
    /\ sent[c] = 0
    /\ Finish(c, "Request")
    /\ gate_seen' = [gate_seen EXCEPT ![c] = {}]
    /\ UNCHANGED <<permits, waiters, want, sent, hits, last, rate_limited,
                   cl_vars, meter_vars, ws_vars, new_vars, color_vars, msg_vars>>

\* The closure hands the request to client.execute (291).
SendRequest(c) ==
    /\ pc[c] = "ready"
    /\ pc' = [pc EXCEPT ![c] = "inflight"]
    /\ sent' = [sent EXCEPT ![c] = @ + 1]
    /\ gate_seen' = [gate_seen EXCEPT ![c] = {}]
    /\ window' = IF metered THEN Append(window, 0) ELSE window
    /\ UNCHANGED <<permits, waiters, permit, lockdown_permits, want,
                   backoff_amount, timer, result, hits, backoffs, last, forgotten,
                   rate_limited, metered, cl_vars, ws_vars, new_vars, color_vars, msg_vars>>

\* client.execute answers; the closure classifies the answer (293-331) and
\* the loop acts on it (209-245).  On a retry the call reads
\* available_permits (220, 237) for the acquire_many_owned it polls next.
Receive(c, resp) ==
    /\ pc[c] = "inflight"
    /\ resp.status = TOO_MANY_REQUESTS => rate_limited < MaxRateLimited
    /\ rate_limited' = IF resp.status = TOO_MANY_REQUESTS THEN rate_limited + 1
                       ELSE rate_limited
    /\ hits' = [hits EXCEPT ![c] = IF resp.status = TOO_MANY_REQUESTS THEN @ + 1 ELSE @]
    /\ last' = [last EXCEPT ![c] = resp]
    /\ LET action == classify(CallEndpoint, resp)
       IN  IF action.tag = "Return"
           THEN /\ Finish(c, action.value)
                /\ UNCHANGED want
           ELSE /\ want' = [want EXCEPT ![c] = permits]
                /\ pc' = [pc EXCEPT ![c] = "lock_acquire"]
                /\ backoffs' = [backoffs EXCEPT ![c] =
                                   IF retry_after_of(resp.retry_after) < 0
                                   THEN @ + 1 ELSE @]
                /\ UNCHANGED <<result, forgotten, permit, timer,
                               lockdown_permits, backoff_amount>>
    /\ UNCHANGED <<permits, waiters, sent, gate_seen, cl_vars, meter_vars, ws_vars, new_vars, color_vars, msg_vars>>

\* Mutant: the lockdown takes the permits it asks for without waiting.
LockAcquire_ungated(c) ==
    /\ pc[c] = "lock_acquire"
    /\ permits' = IF permits >= want[c] THEN permits - want[c] ELSE 0
    /\ pc' = [pc EXCEPT ![c] = "lock_granted"]
    /\ UNCHANGED <<waiters, permit, lockdown_permits, want, backoff_amount, timer,
                   result, sent, hits, backoffs, last, forgotten, gate_seen, rate_limited,
                   cl_vars, meter_vars, ws_vars, new_vars, color_vars, msg_vars>>

\* acquire_many_owned is polled (218-222, 235-239): it takes the permits it
\* asks for, or takes what the pool has and queues for the rest.
LockAcquire(c) ==
    /\ pc[c] = "lock_acquire"
    /\ IF permits >= want[c]
       THEN /\ permits' = permits - want[c]
            /\ waiters' = waiters
            /\ pc' = [pc EXCEPT ![c] = "lock_granted"]
       ELSE /\ permits' = 0
            /\ waiters' = Append(waiters, [task |-> c, needed |-> want[c] - permits])
            /\ pc' = [pc EXCEPT ![c] = "lock_wait"]
    /\ UNCHANGED <<permit, lockdown_permits, want, backoff_amount, timer, result,
                   sent, hits, backoffs, last, forgotten, gate_seen, rate_limited, cl_vars, meter_vars, ws_vars, new_vars, color_vars, msg_vars>>

\* The seconds the loop sleeps for the action it got (226, 243).
sleep_seconds(c) ==
    LET action == classify(CallEndpoint, last[c])
    IN  IF action.tag = "RetryAfter" THEN action.wait ELSE backoff_amount[c]

\* The acquired permits are assigned to lockdown_permits (217, 234), which
\* drops the permits it held before, and the sleep starts (226, 243).
AssignLockdown(c) ==
    /\ pc[c] = "lock_granted"
    /\ LET old == IF lockdown_permits[c] >= 0 THEN lockdown_permits[c] ELSE 0
           r == assign_permits(waiters, old)
       IN  /\ waiters' = r.queue
           /\ permits' = permits + r.rem
           /\ pc' = wake_pc([pc EXCEPT ![c] = "sleep"], r.woken)
           /\ permit' = wake_permit(permit, r.woken)
           /\ gate_seen' = wake_seen(r.woken)
    /\ lockdown_permits' = [lockdown_permits EXCEPT ![c] = want[c]]
    /\ want' = [want EXCEPT ![c] = 0]
    /\ timer' = [timer EXCEPT ![c] = sleep_seconds(c)]
    /\ UNCHANGED <<backoff_amount, result, sent, hits, backoffs, last, forgotten, rate_limited, cl_vars, meter_vars, ws_vars, new_vars, color_vars, msg_vars>>

\* Mutant: the call gives its permit back when its sleep is over.
Wake_releases_permit(c) ==
    /\ pc[c] = "sleep"
    /\ timer[c] = 0
    /\ pc' = [pc EXCEPT ![c] = "ready"]
    /\ backoff_amount' =
         [backoff_amount EXCEPT ![c] =
            IF classify(CallEndpoint, last[c]).tag = "RetryWithBackoff"
            THEN @ * 2 ELSE @]
    /\ permit' = [permit EXCEPT ![c] = "released"]
    /\ permits' = permits + 1
    /\ UNCHANGED <<waiters, lockdown_permits, want, timer,
                   result, sent, hits, backoffs, last, forgotten, gate_seen, rate_limited, cl_vars, meter_vars, ws_vars, new_vars, color_vars, msg_vars>>

\* Mutant: every sleep doubles backoff_amount.
Wake_always_doubles(c) ==
    /\ pc[c] = "sleep"
    /\ timer[c] = 0
    /\ pc' = [pc EXCEPT ![c] = "ready"]
    /\ backoff_amount' = [backoff_amount EXCEPT ![c] = @ * 2]
    /\ UNCHANGED <<permits, waiters, permit, lockdown_permits, want, timer,
                   result, sent, hits, backoffs, last, forgotten, gate_seen, rate_limited, cl_vars, meter_vars, ws_vars, new_vars, color_vars, msg_vars>>

\* The sleep is over (226, 243-244): backoff mode doubles backoff_amount,
\* and the loop calls the closure again.
Wake(c) ==
    /\ pc[c] = "sleep"
    /\ timer[c] = 0
    /\ pc' = [pc EXCEPT ![c] = "ready"]
    /\ backoff_amount' =
         [backoff_amount EXCEPT ![c] =
            IF classify(CallEndpoint, last[c]).tag = "RetryWithBackoff"
            THEN @ * 2 ELSE @]
    /\ UNCHANGED <<permits, waiters, permit, lockdown_permits, want, timer,
                   result, sent, hits, backoffs, last, forgotten, gate_seen, rate_limited, cl_vars, meter_vars, ws_vars, new_vars, color_vars, msg_vars>>

\* Mutant: the cooldown task that ends also gives back the permits that the
\* lockdowns of the waiting calls withhold.
CooldownRelease_opens_gate(c) ==
    /\ permit[c] = "cooldown"
    /\ timer[c] = 0
    /\ LET held == [a \in Callers |->
                      IF pc[a] = "sleep" /\ lockdown_permits[a] > 0
                      THEN lockdown_permits[a] ELSE 0]
           r == assign_permits(waiters, 1 + SumOver(Callers, held))
       IN  /\ waiters' = r.queue
           /\ permits' = permits + r.rem
           /\ pc' = wake_pc(pc, r.woken)
           /\ permit' = wake_permit([permit EXCEPT ![c] = "released"], r.woken)
           /\ gate_seen' = wake_seen(r.woken)
           /\ lockdown_permits' =
                 [a \in Callers |-> IF held[a] > 0 THEN 0 ELSE lockdown_permits[a]]
    /\ UNCHANGED <<want, backoff_amount, timer, result, sent,
                   hits, backoffs, last, forgotten, rate_limited, cl_vars, meter_vars, ws_vars, new_vars, color_vars, msg_vars>>

\* The detached task's sleep is over and it drops the permit (256-257).
CooldownRelease(c) ==
    /\ permit[c] = "cooldown"
    /\ timer[c] = 0
    /\ LET r == assign_permits(waiters, 1)
       IN  /\ waiters' = r.queue
           /\ permits' = permits + r.rem
           /\ pc' = wake_pc(pc, r.woken)
           /\ permit' = wake_permit([permit EXCEPT ![c] = "released"], r.woken)
           /\ gate_seen' = wake_seen(r.woken)
    /\ UNCHANGED <<lockdown_permits, want, backoff_amount, timer, result, sent,
                   hits, backoffs, last, forgotten, rate_limited, cl_vars, meter_vars, ws_vars, new_vars, color_vars, msg_vars>>

\* The requests of the last LOCK_HOLD_DURATION seconds, d seconds later.
RECURSIVE aged(_, _)
aged(w, d) ==
    IF w = <<>> THEN <<>>
    ELSE IF Head(w) + d >= LOCK_HOLD_DURATION THEN aged(Tail(w), d)
    ELSE <<Head(w) + d>> \o aged(Tail(w), d)

\* Timers that are running and have time left.
Running == {c \in Callers : (pc[c] = "sleep" \/ permit[c] = "cooldown") /\ timer[c] > 0}

MinTimer == CHOOSE d \in {timer[c] : c \in Running} :
                \A c \in Running : d <= timer[c]

\* Time passes up to the next expiry (tokio::time::sleep, 226, 243, 256).
Advance ==
    /\ Running # {}
    /\ timer' = [c \in Callers |-> IF c \in Running THEN timer[c] - MinTimer ELSE timer[c]]
    /\ window' = aged(window, MinTimer)
    /\ UNCHANGED <<permits, waiters, pc, permit, lockdown_permits, want,
                   backoff_amount, result, sent, hits, backoffs, last, forgotten,
                   gate_seen, rate_limited, metered, cl_vars, ws_vars, new_vars, color_vars, msg_vars>>

\* The pool model: every caller, and the answers that matter to the pool.
Next ==
    \/ \E c \in Callers : Start(c)
    \/ \E c \in Callers : SendRequest(c)
    \/ \E c \in Callers : \E resp \in PoolAnswers : Receive(c, resp)
    \/ \E c \in Callers : LockAcquire(c)
    \/ \E c \in Callers : AssignLockdown(c)
    \/ \E c \in Callers : Wake(c)
    \/ \E c \in Callers : CooldownRelease(c)
    \/ Advance

Spec == Init /\ [][Next]_vars

\* The call model: fewer callers, and every kind of answer.
CallNext ==
    \/ \E c \in 1..RichCallers : Start(c)
    \/ \E c \in Callers : BuildError(c)
    \/ \E c \in Callers : SendRequest(c)
    \/ \E c \in Callers : \E resp \in ServerAnswers : Receive(c, resp)
    \/ \E c \in Callers : LockAcquire(c)
    \/ \E c \in Callers : AssignLockdown(c)
    \/ \E c \in Callers : Wake(c)
    \/ \E c \in Callers : CooldownRelease(c)
    \/ Advance

CallSpec == Init /\ [][CallNext]_vars

\* ------------------------------------------------------------- abandonment
\* The queue without the waiter of call c (Acquire's drop unlinks its node).
without(q, c) == SelectSeq(q, LAMBDA w : w.task # c)

\* Permits that call c's acquire_many_owned has been given and that are not
\* yet in lockdown_permits.
acquired_permits(c) ==
    IF pc[c] = "lock_granted" THEN want[c]
    ELSE IF pc[c] = "lock_wait"
    THEN LET i == CHOOSE k \in 1..Len(waiters) : waiters[k].task = c
         IN  want[c] - waiters[i].needed
    ELSE 0

\* The caller drops the future of make_request before it has returned, as
\* a timeout or a select around it does.  The future stops at the await it
\* is at (199-202, 209, 217-226, 234-243) and its locals are dropped: a
\* queued acquire leaves the queue and gives back what it was assigned, the
\* request in flight is dropped, and permit and lockdown_permits are
\* released at once: no forget (249-251), no cooldown task (254-259), no
\* result (261).
Abandon(c) ==
    /\ pc[c] \in {"wait_permit", "ready", "inflight", "lock_acquire", "lock_wait",
                  "lock_granted", "sleep"}
    /\ LET own == IF permit[c] = "call" THEN 1 ELSE 0
           held == IF lockdown_permits[c] >= 0 THEN lockdown_permits[c] ELSE 0
           r == assign_permits(without(waiters, c), own + held + acquired_permits(c))
       IN  /\ waiters' = r.queue
           /\ permits' = permits + r.rem
           /\ pc' = wake_pc([pc EXCEPT ![c] = "abandoned"], r.woken)
           /\ permit' = wake_permit([permit EXCEPT ![c] =
                                       IF own = 1 THEN "released" ELSE @], r.woken)
           /\ gate_seen' = wake_seen(r.woken)
    /\ lockdown_permits' = [lockdown_permits EXCEPT ![c] = -1]
    /\ want' = [want EXCEPT ![c] = 0]
    /\ timer' = [timer EXCEPT ![c] = 0]
    /\ UNCHANGED <<backoff_amount, result, sent, hits, backoffs, last, forgotten,
                   rate_limited, cl_vars, meter_vars, ws_vars, new_vars, color_vars, msg_vars>>

\* The call model with the answers of the pool model, and callers that
\* abandon their call.
AbandonNext ==
    \/ \E c \in 1..RichCallers : Start(c)
    \/ \E c \in Callers : SendRequest(c)
    \/ \E c \in Callers : \E resp \in PoolAnswers : Receive(c, resp)
    \/ \E c \in Callers : LockAcquire(c)
    \/ \E c \in Callers : AssignLockdown(c)
    \/ \E c \in Callers : Wake(c)
    \/ \E c \in Callers : CooldownRelease(c)
    \/ Advance
    \/ \E c \in Callers : Abandon(c)

AbandonSpec == Init /\ [][AbandonNext]_vars

\* The pool model with the requests of the last LOCK_HOLD_DURATION seconds
\* counted.
RateInit ==
    /\ permits = CONCURRENT_REQUEST
    /\ waiters = <<>>
    /\ pc = [c \in Callers |-> "idle"]
    /\ permit = [c \in Callers |-> "none"]
    /\ lockdown_permits = [c \in Callers |-> -1]
    /\ want = [c \in Callers |-> 0]
    /\ backoff_amount = [c \in Callers |-> 0]
    /\ timer = [c \in Callers |-> 0]
    /\ result = [c \in Callers |-> "-"]
    /\ sent = [c \in Callers |-> 0]
    /\ hits = [c \in Callers |-> 0]
    /\ last = [c \in Callers |-> NoResponse]
    /\ forgotten = 0
    /\ gate_seen = [c \in Callers |-> {}]
    /\ rate_limited = 0
    /\ backoffs = [c \in Callers |-> 0]
    /\ metered = TRUE
    /\ window = <<>>
    /\ RelayIdle
    /\ Constructed
    /\ ColorIdle
    /\ MessageIdle
    /\ cl_endpoint = "GetChannel"
    /\ cl_resp = NoResponse
    /\ cl_action = NoAction

RateSpec == RateInit /\ [][Next]_vars

\* ------------------------------------------------- classification alone
\* The closure of make_request applied to every answer, for every endpoint.
ClApply ==
    /\ cl_action.tag = "None"
    /\ cl_action' = classify(cl_endpoint, cl_resp)
    /\ UNCHANGED <<cl_endpoint, cl_resp, gov_vars, meter_vars, ws_vars, new_vars, color_vars, msg_vars>>

ClInit ==
    /\ permits = CONCURRENT_REQUEST
    /\ waiters = <<>>
    /\ pc = [c \in Callers |-> "idle"]
    /\ permit = [c \in Callers |-> "none"]
    /\ lockdown_permits = [c \in Callers |-> -1]
    /\ want = [c \in Callers |-> 0]
    /\ backoff_amount = [c \in Callers |-> 0]
    /\ timer = [c \in Callers |-> 0]
    /\ result = [c \in Callers |-> "-"]
    /\ sent = [c \in Callers |-> 0]
    /\ hits = [c \in Callers |-> 0]
    /\ last = [c \in Callers |-> NoResponse]
    /\ forgotten = 0
    /\ gate_seen = [c \in Callers |-> {}]
    /\ rate_limited = 0
    /\ backoffs = [c \in Callers |-> 0]
    /\ metered = FALSE
    /\ window = <<>>
    /\ RelayIdle
    /\ Constructed
    /\ ColorIdle
    /\ MessageIdle
    /\ cl_endpoint \in Endpoints
    /\ cl_resp \in AllResponses
    /\ cl_action = NoAction

ClNext == ClApply

ClassifySpec == ClInit /\ [][ClNext]_vars

\* ----------------------------------------------------------- construction
\* Before Client::new: no client and no semaphore.
NewInit ==
    /\ permits = 0
    /\ waiters = <<>>
    /\ pc = [c \in Callers |-> "idle"]
    /\ permit = [c \in Callers |-> "none"]
    /\ lockdown_permits = [c \in Callers |-> -1]
    /\ want = [c \in Callers |-> 0]
    /\ backoff_amount = [c \in Callers |-> 0]
    /\ timer = [c \in Callers |-> 0]
    /\ result = [c \in Callers |-> "-"]
    /\ sent = [c \in Callers |-> 0]
    /\ hits = [c \in Callers |-> 0]
    /\ last = [c \in Callers |-> NoResponse]
    /\ forgotten = 0
    /\ gate_seen = [c \in Callers |-> {}]
    /\ rate_limited = 0
    /\ backoffs = [c \in Callers |-> 0]
    /\ metered = FALSE
    /\ window = <<>>
    /\ RelayIdle
    /\ cl_endpoint = "GetChannel"
    /\ cl_resp = NoResponse
    /\ cl_action = NoAction
    /\ token \in Tokens
    /\ client = "none"
    /\ ColorIdle
    /\ MessageIdle

\* Client::new (152-186): the header value that does not parse returns
\* ApiError::Other (170-174), the reqwest client that cannot be built
\* returns ApiError::Request (177-180); otherwise the client is returned with
\* a semaphore of CONCURRENT_REQUEST permits (182-185).
Client_new(built) ==
    /\ client = "none"
    /\ IF ~parse_header_value(BearerPrefix \o token)
       THEN /\ client' = "Other"
            /\ UNCHANGED permits
       ELSE IF ~built
       THEN /\ client' = "Request"
            /\ UNCHANGED permits
       ELSE /\ client' = "Ok"
            /\ permits' = CONCURRENT_REQUEST
    /\ UNCHANGED <<token, waiters, pc, permit, lockdown_permits, want,
                   backoff_amount, timer, result, sent, hits, backoffs, last,
                   forgotten, gate_seen, rate_limited, cl_vars, meter_vars, ws_vars,
                   color_vars, msg_vars>>

NewNext == \E built \in BOOLEAN : Client_new(built)

NewSpec == NewInit /\ [][NewNext]_vars

\* ------------------------------------------------------------------ color
\* A Color is its three channels <<r, g, b>>.  A u32 is kept as its two
\* 16-bit halves <<high, low>>, so that every u32 is a value of the model.
ChannelSamples == <<0, 255, 16, 153, 9, 99, 10, 128>>
ChannelValues == {ChannelSamples[i] : i \in 1..NumChannelValues}
Colors == ChannelValues \X ChannelValues \X ChannelValues

HalfSamples == {0, 1, 255, 256, 4660, 22136, 65280, 65535}
Words == HalfSamples \X HalfSamples

\* The strings given to from_hex, as UTF-8 bytes.
HexInputs ==
    { <<35, 70, 70, 48, 48, 48, 48>>,              \* "#FF0000"
      <<70, 70, 48, 48, 48, 48>>,                  \* "FF0000"
      <<35, 48, 48, 48, 48, 48, 48>>,              \* "#000000"
      <<48, 48, 48, 48, 48, 48>>,                  \* "000000"
      <<35, 49, 48, 50, 48, 51, 48>>,              \* "#102030"
      <<49, 48, 50, 48, 51, 48>>,                  \* "102030"
      <<35, 102, 102, 48, 48, 97, 97>>,            \* "#ff00aa"
      <<49, 50, 51, 52, 53>>,                      \* "12345"
      <<35, 49, 50, 51, 52, 53>>,                  \* "#12345"
      <<49, 50, 51, 52, 53, 54, 55>>,              \* "1234567"
      <<>>,                                        \* ""
      <<35>>,                                      \* "#"
      <<43, 49, 43, 50, 43, 51>>,                  \* "+1+2+3"
      <<71, 71, 48, 48, 48, 48>>,                  \* "GG0000"
      <<97, 195, 169, 48, 48, 48>>,                \* "aé000"
      <<35, 57, 57, 48, 48, 70, 70>> }             \* "#9900FF"

\* Mutant: the top 8 bits are not masked off.
color_from_u32_unmasked(v) ==
    IF v[1] > 255
    THEN [tag |-> "Panic", color |-> <<0, 0, 0>>]
    ELSE [tag |-> "Ok", color |-> <<v[1], v[2] \div 256, v[2] % 256>>]

\* From<u32> for Color (31-37): (v >> 16) & 0xFF, (v >> 8) & 0xFF, v & 0xFF,
\* each converted to u8 with try_into().expect, which panics on a value
\* above 255.
color_from_u32(v) ==
    LET r == v[1] % 256
        g == v[2] \div 256
        b == v[2] % 256
    IN  IF r > 255 \/ g > 255 \/ b > 255
        THEN [tag |-> "Panic", color |-> <<0, 0, 0>>]
        ELSE [tag |-> "Ok", color |-> <<r, g, b>>]

\* From<Color> for u32 (42-44): r << 16 | g << 8 | b.
u32_from_color(c) == <<c[1], c[2] * 256 + c[3]>>

\* One digit of {:02X}.
upper_hex_digit(n) == IF n < 10 THEN 48 + n ELSE 55 + n

\* to_hex (77-79): "#" and two upper-case hexadecimal digits per channel.
to_hex(c) ==
    <<35,
      upper_hex_digit(c[1] \div 16), upper_hex_digit(c[1] % 16),
      upper_hex_digit(c[2] \div 16), upper_hex_digit(c[2] % 16),
      upper_hex_digit(c[3] \div 16), upper_hex_digit(c[3] % 16)>>

\* str::parse::<u8> (68-70): an optional '+' and then decimal digits, of a
\* value up to 255; -1 when the text is not such a number.
parse_u8(t) ==
    LET d == IF t # <<>> /\ t[1] = 43 THEN Tail(t) ELSE t
    IN  IF d # <<>> /\ (\A i \in 1..Len(d) : IsDigit(d[i])) /\ DigitsValue(d, 0) <= 255
        THEN DigitsValue(d, 0)
        ELSE -1

\* str::is_char_boundary: the byte offset is at an end of the string or
\* before a byte that does not continue a character.
is_char_boundary(t, i) ==
    i = 0 \/ i = Len(t) \/ (i < Len(t) /\ t[i + 1] \notin 128..191)

\* from_hex (53-73): the leading '#' is stripped (55), a length other than
\* 6 bytes is an error (58-60), the string is cut into three slices of two
\* bytes (63-65), which panics inside a character, and each slice is
\* parsed with str::parse::<u8> (68-70).
from_hex(text) ==
    LET hex == IF text # <<>> /\ text[1] = 35 THEN Tail(text) ELSE text
    IN  IF Len(hex) # 6
        THEN [tag |-> "Err", color |-> <<0, 0, 0>>]
        ELSE IF ~is_char_boundary(hex, 2) \/ ~is_char_boundary(hex, 4)
        THEN [tag |-> "Panic", color |-> <<0, 0, 0>>]
        ELSE LET r == parse_u8(SubSeq(hex, 1, 2))
                 g == parse_u8(SubSeq(hex, 3, 4))
                 b == parse_u8(SubSeq(hex, 5, 6))
             IN  IF r < 0 \/ b < 0 \/ g < 0
                 THEN [tag |-> "Err", color |-> <<0, 0, 0>>]
                 ELSE [tag |-> "Ok", color |-> <<r, g, b>>]

ColorResult(op, r, word, hex) ==
    [op |-> op, tag |-> r.tag, color |-> r.color, word |-> word, hex |-> hex]

\* A colour, a u32 or a string is chosen for conversion.
ColorInit ==
    /\ \/ \E c \in Colors : c_in = [NoColorInput EXCEPT !.kind = "color", !.color = c]
       \/ \E v \in Words : c_in = [NoColorInput EXCEPT !.kind = "word", !.word = v]
       \/ \E t \in HexInputs : c_in = [NoColorInput EXCEPT !.kind = "hex", !.hex = t]
    /\ c_out = NoColorResult
    /\ MessageIdle
    /\ Constructed
    /\ RelayIdle
    /\ permits = CONCURRENT_REQUEST
    /\ waiters = <<>>
    /\ pc = [c \in Callers |-> "idle"]
    /\ permit = [c \in Callers |-> "none"]
    /\ lockdown_permits = [c \in Callers |-> -1]
    /\ want = [c \in Callers |-> 0]
    /\ backoff_amount = [c \in Callers |-> 0]
    /\ timer = [c \in Callers |-> 0]
    /\ result = [c \in Callers |-> "-"]
    /\ sent = [c \in Callers |-> 0]
    /\ hits = [c \in Callers |-> 0]
    /\ last = [c \in Callers |-> NoResponse]
    /\ forgotten = 0
    /\ gate_seen = [c \in Callers |-> {}]
    /\ rate_limited = 0
    /\ backoffs = [c \in Callers |-> 0]
    /\ metered = FALSE
    /\ window = <<>>
    /\ cl_endpoint = "GetChannel"
    /\ cl_resp = NoResponse
    /\ cl_action = NoAction

ColorRest == <<c_in, gov_vars, cl_vars, meter_vars, ws_vars, new_vars, msg_vars>>

\* Color::from_hex(&c.to_hex()).
HexRoundTrip ==
    /\ c_in.kind = "color" /\ c_out.op = "none"
    /\ c_out' = ColorResult("from_hex(to_hex)", from_hex(to_hex(c_in.color)),
                            <<0, 0>>, to_hex(c_in.color))
    /\ UNCHANGED ColorRest

\* Color::from_hex on a string.
FromHex ==
    /\ c_in.kind = "hex" /\ c_out.op = "none"
    /\ c_out' = ColorResult("from_hex", from_hex(c_in.hex), <<0, 0>>, c_in.hex)
    /\ UNCHANGED ColorRest

\* Color::from(u32::from(c)).
ColorRoundTrip ==
    /\ c_in.kind = "color" /\ c_out.op = "none"
    /\ c_out' = ColorResult("Color::from(u32::from)",
                            color_from_u32(u32_from_color(c_in.color)),
                            u32_from_color(c_in.color), <<>>)
    /\ UNCHANGED ColorRest

\* u32::from(Color::from(v)).
WordRoundTrip ==
    /\ c_in.kind = "word" /\ c_out.op = "none"
    /\ LET r == color_from_u32(c_in.word)
       IN  c_out' = ColorResult("u32::from(Color::from)", r,
                                IF r.tag = "Ok" THEN u32_from_color(r.color) ELSE <<0, 0>>,
                                <<>>)
    /\ UNCHANGED ColorRest

ColorNext ==
    \/ HexRoundTrip
    \/ FromHex
    \/ ColorRoundTrip
    \/ WordRoundTrip

ColorSpec == ColorInit /\ [][ColorNext]_vars

\* ---------------------------------------------------------- MessageCreate
\* The contents, embeds, channels and message ids given to the builder.
Contents == {"", "hi"}
Embeds == {"e1", "e2"}
ChannelIds == {"c1"}
MessageIds == {1, 2}
ReplyLists == SeqsUpTo(MessageIds, MaxReplies)

None(default) == [some |-> FALSE, v |-> default]
Some(v) == [some |-> TRUE, v |-> v]

\* MessageCreateArguments::default() (15-34, #[derive(Default)]).
DefaultArguments ==
    [content |-> None(""), embeds |-> None(<<>>), private |-> None(FALSE),
     silent |-> None(FALSE), reply_message_ids |-> None(<<>>)]

MessageCreate(channel, arguments) ==
    [made |-> TRUE, channel |-> channel,
     content |-> arguments.content, embeds |-> arguments.embeds,
     private |-> arguments.private, silent |-> arguments.silent,
     reply_message_ids |-> arguments.reply_message_ids]

MessageInit ==
    /\ MessageIdle
    /\ ColorIdle
    /\ Constructed
    /\ RelayIdle
    /\ permits = CONCURRENT_REQUEST
    /\ waiters = <<>>
    /\ pc = [c \in Callers |-> "idle"]
    /\ permit = [c \in Callers |-> "none"]
    /\ lockdown_permits = [c \in Callers |-> -1]
    /\ want = [c \in Callers |-> 0]
    /\ backoff_amount = [c \in Callers |-> 0]
    /\ timer = [c \in Callers |-> 0]
    /\ result = [c \in Callers |-> "-"]
    /\ sent = [c \in Callers |-> 0]
    /\ hits = [c \in Callers |-> 0]
    /\ last = [c \in Callers |-> NoResponse]
    /\ forgotten = 0
    /\ gate_seen = [c \in Callers |-> {}]
    /\ rate_limited = 0
    /\ backoffs = [c \in Callers |-> 0]
    /\ metered = FALSE
    /\ window = <<>>
    /\ cl_endpoint = "GetChannel"
    /\ cl_resp = NoResponse
    /\ cl_action = NoAction

MessageRest == <<gov_vars, cl_vars, meter_vars, ws_vars, new_vars, color_vars>>

\* MessageCreate::new_with_content (51-59).
new_with_content(channel, text) ==
    /\ ~msg.made
    /\ msg' = MessageCreate(channel, [DefaultArguments EXCEPT !.content = Some(text)])
    /\ UNCHANGED MessageRest

\* Mutant: the constructor leaves the embed out.
new_with_embed_default(channel, e) ==
    /\ ~msg.made
    /\ msg' = MessageCreate(channel, DefaultArguments)
    /\ UNCHANGED MessageRest

\* MessageCreate::new_with_embed (63-71).
new_with_embed(channel, e) ==
    /\ ~msg.made
    /\ msg' = MessageCreate(channel, [DefaultArguments EXCEPT !.embeds = Some(<<e>>)])
    /\ UNCHANGED MessageRest

\* content (76-79).
content(text) ==
    /\ msg.made
    /\ msg' = [msg EXCEPT !.content = Some(text)]
    /\ UNCHANGED MessageRest

\* embed (82-85): the one embed replaces the embeds there were.
embed(e) ==
    /\ msg.made
    /\ msg' = [msg EXCEPT !.embeds = Some(<<e>>)]
    /\ UNCHANGED MessageRest

\* private (88-91).
private(flag) ==
    /\ msg.made
    /\ msg' = [msg EXCEPT !.private = Some(flag)]
    /\ UNCHANGED MessageRest

\* silent (94-97).
silent(flag) ==
    /\ msg.made
    /\ msg' = [msg EXCEPT !.silent = Some(flag)]
    /\ UNCHANGED MessageRest

\* replies (100-103): the list given replaces the replies there were.
replies(ids) ==
    /\ msg.made
    /\ msg' = [msg EXCEPT !.reply_message_ids = Some(ids)]
    /\ UNCHANGED MessageRest

\* reply (106-113): get_or_insert_with(Vec::new).push(reply).
reply(id) ==
    /\ msg.made
    /\ Len(msg.reply_message_ids.v) < MaxReplies
    /\ msg' = [msg EXCEPT !.reply_message_ids =
                   Some(Append(IF @.some THEN @.v ELSE <<>>, id))]
    /\ UNCHANGED MessageRest

MessageNext ==
    \/ \E ch \in ChannelIds, text \in Contents : new_with_content(ch, text)
    \/ \E ch \in ChannelIds, e \in Embeds : new_with_embed(ch, e)
    \/ \E text \in Contents : content(text)
    \/ \E e \in Embeds : embed(e)
    \/ \E flag \in BOOLEAN : private(flag)
    \/ \E flag \in BOOLEAN : silent(flag)
    \/ \E ids \in ReplyLists : replies(ids)
    \/ \E id \in MessageIds : reply(id)

MessageSpec == MessageInit /\ [][MessageNext]_vars

\* ------------------------------------------------------------------ relay
\* The receivers the channel counts (rx_cnt).
ActiveReceivers == {s \in Receivers : sub[s] = "active"}

\* Mutant: the loop is spawned before the connection is made.
Connect_spawns_first(capacity, token_ok, connected) ==
    /\ loop = "none"
    /\ event_capacity' = capacity
    /\ IF ~token_ok
       THEN /\ loop' = "failed"
            /\ UNCHANGED sub
       ELSE IF capacity = 0
       THEN /\ loop' = "panicked"
            /\ UNCHANGED sub
       ELSE /\ loop' = "read"
            /\ sub' = IF connected THEN [sub EXCEPT ![1] = "active"] ELSE sub
    /\ UNCHANGED <<frame, reads, pings, pongs, wrote, logged, log, next, out,
                   gov_vars, cl_vars, meter_vars, new_vars, color_vars, msg_vars>>

\* connect_to_websocket (31-53).  The token that is no header value and the
\* connection that fails return an error before the channel is made; when
\* they succeed the channel is made with one receiver, the loop is spawned
\* and the receiver is returned.  broadcast::channel panics on capacity 0.
Connect(capacity, token_ok, connected) ==
    /\ loop = "none"
    /\ event_capacity' = capacity
    /\ IF ~token_ok \/ ~connected
       THEN /\ loop' = "failed"
            /\ UNCHANGED sub
       ELSE IF capacity = 0
       THEN /\ loop' = "panicked"
            /\ UNCHANGED sub
       ELSE /\ loop' = "read"
            /\ sub' = [sub EXCEPT ![1] = "active"]
    /\ UNCHANGED <<frame, reads, pings, pongs, wrote, logged, log, next, out,
                   gov_vars, cl_vars, meter_vars, new_vars, color_vars, msg_vars>>

\* Mutant: the send waits for room while a receiver's buffer is full.
Publish_waits_for_room(event) ==
    IF ActiveReceivers = {}
    THEN /\ logged' = [logged EXCEPT !["send"] = @ + 1]
         /\ UNCHANGED log
    ELSE /\ \A s \in ActiveReceivers : Len(log) - next[s] < ChannelCap
         /\ log' = Append(log, event)
         /\ UNCHANGED logged

\* tx.send (100-102): the channel takes the event when it has a receiver
\* and gives it back as an error when it has none; it never waits.
Publish(event) ==
    IF ActiveReceivers = {}
    THEN /\ logged' = [logged EXCEPT !["send"] = @ + 1]
         /\ UNCHANGED log
    ELSE /\ log' = Append(log, event)
         /\ UNCHANGED logged

\* The error logged for an item that is no text: the read error (63), the
\* binary message that is not UTF-8 (73), the message of another kind (84).
skipped(item) ==
    IF item.kind = "error" THEN "read"
    ELSE IF item.kind = "binary" THEN "utf8"
    ELSE "kind"

\* Mutant: a text that does not decode ends the loop.
ReadItem_decode_error_ends(item) ==
    /\ loop = "read"
    /\ reads < MaxFrames
    /\ item.kind \in {"error", "text", "binary", "other"}
    /\ frame' = item
    /\ reads' = reads + 1
    /\ IF item.kind = "text" \/ (item.kind = "binary" /\ item.utf8)
       THEN IF decode_event(item.text) = DecodeError
            THEN /\ logged' = [logged EXCEPT !["decode"] = @ + 1]
                 /\ loop' = "ended"
                 /\ UNCHANGED log
            ELSE /\ Publish(decode_event(item.text))
                 /\ UNCHANGED loop
       ELSE /\ logged' = [logged EXCEPT ![skipped(item)] = @ + 1]
            /\ UNCHANGED <<log, loop>>
    /\ UNCHANGED <<event_capacity, pings, pongs, wrote, sub, next, out,
                   gov_vars, cl_vars, meter_vars, new_vars, color_vars, msg_vars>>

\* Mutant: a read error ends the loop.
ReadItem_read_error_ends(item) ==
    /\ loop = "read"
    /\ reads < MaxFrames
    /\ item.kind \in {"error", "text", "binary", "other"}
    /\ frame' = item
    /\ reads' = reads + 1
    /\ IF item.kind = "text" \/ (item.kind = "binary" /\ item.utf8)
       THEN IF decode_event(item.text) = DecodeError
            THEN /\ logged' = [logged EXCEPT !["decode"] = @ + 1]
                 /\ UNCHANGED log
            ELSE Publish(decode_event(item.text))
       ELSE /\ logged' = [logged EXCEPT ![skipped(item)] = @ + 1]
            /\ UNCHANGED log
    /\ loop' = IF item.kind = "error" THEN "ended" ELSE loop
    /\ UNCHANGED <<event_capacity, pings, pongs, wrote, sub, next, out,
                   gov_vars, cl_vars, meter_vars, new_vars, color_vars, msg_vars>>

\* Mutant: an event that no receiver takes ends the loop.
ReadItem_send_error_ends(item) ==
    /\ loop = "read"
    /\ reads < MaxFrames
    /\ item.kind \in {"error", "text", "binary", "other"}
    /\ frame' = item
    /\ reads' = reads + 1
    /\ IF item.kind = "text" \/ (item.kind = "binary" /\ item.utf8)
       THEN IF decode_event(item.text) = DecodeError
            THEN /\ logged' = [logged EXCEPT !["decode"] = @ + 1]
                 /\ UNCHANGED <<log, loop>>
            ELSE /\ Publish(decode_event(item.text))
                 /\ loop' = IF ActiveReceivers = {} THEN "ended" ELSE loop
       ELSE /\ logged' = [logged EXCEPT ![skipped(item)] = @ + 1]
            /\ UNCHANGED <<log, loop>>
    /\ UNCHANGED <<event_capacity, pings, pongs, wrote, sub, next, out,
                   gov_vars, cl_vars, meter_vars, new_vars, color_vars, msg_vars>>

\* Mutant: a message of another kind ends the loop.
ReadItem_other_kind_ends(item) ==
    /\ loop = "read"
    /\ reads < MaxFrames
    /\ item.kind \in {"error", "text", "binary", "other"}
    /\ frame' = item
    /\ reads' = reads + 1
    /\ IF item.kind = "text" \/ (item.kind = "binary" /\ item.utf8)
       THEN IF decode_event(item.text) = DecodeError
            THEN /\ logged' = [logged EXCEPT !["decode"] = @ + 1]
                 /\ UNCHANGED log
            ELSE Publish(decode_event(item.text))
       ELSE /\ logged' = [logged EXCEPT ![skipped(item)] = @ + 1]
            /\ UNCHANGED log
    /\ loop' = IF item.kind = "other" THEN "ended" ELSE loop
    /\ UNCHANGED <<event_capacity, pings, pongs, wrote, sub, next, out,
                   gov_vars, cl_vars, meter_vars, new_vars, color_vars, msg_vars>>

\* Mutant: a binary message is never taken for text.
ReadItem_binary_skipped(item) ==
    /\ loop = "read"
    /\ reads < MaxFrames
    /\ item.kind \in {"error", "text", "binary", "other"}
    /\ frame' = item
    /\ reads' = reads + 1
    /\ IF item.kind = "text"
       THEN IF decode_event(item.text) = DecodeError
            THEN /\ logged' = [logged EXCEPT !["decode"] = @ + 1]
                 /\ UNCHANGED log
            ELSE Publish(decode_event(item.text))
       ELSE /\ logged' = [logged EXCEPT ![skipped(item)] = @ + 1]
            /\ UNCHANGED log
    /\ UNCHANGED <<event_capacity, loop, pings, pongs, wrote, sub, next, out,
                   gov_vars, cl_vars, meter_vars, new_vars, color_vars, msg_vars>>

\* One turn of the loop (59-103) for an item other than a ping: a read
\* error, a binary message that is not UTF-8, a message of another kind and
\* a text that does not decode are logged and skipped; a decoded event is
\* published.
ReadItem(item) ==
    /\ loop = "read"
    /\ reads < MaxFrames
    /\ item.kind \in {"error", "text", "binary", "other"}
    /\ frame' = item
    /\ reads' = reads + 1
    /\ IF item.kind = "text" \/ (item.kind = "binary" /\ item.utf8)
       THEN IF decode_event(item.text) = DecodeError
            THEN /\ logged' = [logged EXCEPT !["decode"] = @ + 1]
                 /\ UNCHANGED log
            ELSE Publish(decode_event(item.text))
       ELSE /\ logged' = [logged EXCEPT ![skipped(item)] = @ + 1]
            /\ UNCHANGED log
    /\ UNCHANGED <<event_capacity, loop, pings, pongs, wrote, sub, next, out,
                   gov_vars, cl_vars, meter_vars, new_vars, color_vars, msg_vars>>

\* Mutant: the ping is skipped like a message of another kind.
ReadPing_no_pong(payload) ==
    /\ loop = "read"
    /\ reads < MaxFrames
    /\ frame' = Ping(payload)
    /\ reads' = reads + 1
    /\ pings' = pings + 1
    /\ UNCHANGED <<event_capacity, loop, pongs, wrote, logged, log, sub, next, out,
                   gov_vars, cl_vars, meter_vars, new_vars, color_vars, msg_vars>>

\* The loop reads a ping (77) and starts the write of the pong.
ReadPing(payload) ==
    /\ loop = "read"
    /\ reads < MaxFrames
    /\ frame' = Ping(payload)
    /\ reads' = reads + 1
    /\ pings' = pings + 1
    /\ loop' = "pong"
    /\ UNCHANGED <<event_capacity, pongs, wrote, logged, log, sub, next, out,
                   gov_vars, cl_vars, meter_vars, new_vars, color_vars, msg_vars>>

\* Mutant: the pong is written with an empty payload.
WritePong_empty_payload(written) ==
    /\ loop = "pong"
    /\ IF written
       THEN /\ pongs' = pongs + 1
            /\ wrote' = Pong(0)
            /\ UNCHANGED logged
       ELSE /\ logged' = [logged EXCEPT !["pong"] = @ + 1]
            /\ UNCHANGED <<pongs, wrote>>
    /\ loop' = "read"
    /\ UNCHANGED <<event_capacity, frame, reads, pings, log, sub, next,
                   out, gov_vars, cl_vars, meter_vars, new_vars, color_vars, msg_vars>>

\* Mutant: the pong that cannot be written ends the loop.
WritePong_failure_ends(written) ==
    /\ loop = "pong"
    /\ IF written
       THEN /\ pongs' = pongs + 1
            /\ wrote' = Pong(frame.payload)
            /\ loop' = "read"
            /\ UNCHANGED logged
       ELSE /\ logged' = [logged EXCEPT !["pong"] = @ + 1]
            /\ loop' = "ended"
            /\ UNCHANGED <<pongs, wrote>>
    /\ UNCHANGED <<event_capacity, frame, reads, pings, log, sub, next,
                   out, gov_vars, cl_vars, meter_vars, new_vars, color_vars, msg_vars>>

\* write.send(Pong(ping)) completes (78-81): the pong is written, or the
\* write fails and the error is logged; the loop goes on either way.
WritePong(written) ==
    /\ loop = "pong"
    /\ IF written
       THEN /\ pongs' = pongs + 1
            /\ wrote' = Pong(frame.payload)
            /\ UNCHANGED logged
       ELSE /\ logged' = [logged EXCEPT !["pong"] = @ + 1]
            /\ UNCHANGED <<pongs, wrote>>
    /\ loop' = "read"
    /\ UNCHANGED <<event_capacity, frame, reads, pings, log, sub, next,
                   out, gov_vars, cl_vars, meter_vars, new_vars, color_vars, msg_vars>>

\* Mutant: the end of the stream is skipped and the loop reads on.
ReadEnd_reads_on ==
    /\ loop = "read"
    /\ frame' = EndOfStream
    /\ UNCHANGED <<event_capacity, loop, reads, pings, pongs, wrote, logged, log, sub,
                   next, out, gov_vars, cl_vars, meter_vars, new_vars, color_vars, msg_vars>>

\* read.next() gives None (59): the loop ends and event_loop returns, which
\* drops tx, the only sender, and so closes the channel.
ReadEnd ==
    /\ loop = "read"
    /\ frame' = EndOfStream
    /\ loop' = "ended"
    /\ UNCHANGED <<event_capacity, reads, pings, pongs, wrote, logged, log, sub,
                   next, out, gov_vars, cl_vars, meter_vars, new_vars, color_vars, msg_vars>>

\* Mutant: the receiver that lagged moves to the newest event.
Recv_lagged_to_newest(s) ==
    /\ sub[s] = "active"
    /\ IF next[s] < Len(log) - ChannelCap
       THEN /\ out' = [out EXCEPT ![s] = Lagged(Len(log) - 1 - next[s])]
            /\ next' = [next EXCEPT ![s] = Len(log) - 1]
       ELSE IF next[s] < Len(log)
       THEN /\ out' = [out EXCEPT ![s] = Received(log[next[s] + 1])]
            /\ next' = [next EXCEPT ![s] = @ + 1]
       ELSE /\ loop = "ended"
            /\ out' = [out EXCEPT ![s] = Closed]
            /\ UNCHANGED next
    /\ UNCHANGED <<event_capacity, loop, frame, reads, pings, pongs, wrote,
                   logged, log, sub, gov_vars, cl_vars, meter_vars, new_vars, color_vars, msg_vars>>

\* Mutant: recv gives the next event and leaves it in place.
Recv_peeks(s) ==
    /\ sub[s] = "active"
    /\ IF next[s] < Len(log) - ChannelCap
       THEN /\ out' = [out EXCEPT ![s] = Lagged(Len(log) - ChannelCap - next[s])]
            /\ next' = [next EXCEPT ![s] = Len(log) - ChannelCap]
       ELSE IF next[s] < Len(log)
       THEN /\ out' = [out EXCEPT ![s] = Received(log[next[s] + 1])]
            /\ UNCHANGED next
       ELSE /\ loop = "ended"
            /\ out' = [out EXCEPT ![s] = Closed]
            /\ UNCHANGED next
    /\ UNCHANGED <<event_capacity, loop, frame, reads, pings, pongs, wrote,
                   logged, log, sub, gov_vars, cl_vars, meter_vars, new_vars, color_vars, msg_vars>>

\* Receiver::recv on the receiver connect_to_websocket returned (34, 52) or
\* one made from it: the receiver that is more than the channel's slots
\* behind is told how many events it missed and moves to the oldest event
\* kept; otherwise it gets its next event; with none left it waits, or is
\* told that the channel is closed.
Recv(s) ==
    /\ sub[s] = "active"
    /\ IF next[s] < Len(log) - ChannelCap
       THEN /\ out' = [out EXCEPT ![s] = Lagged(Len(log) - ChannelCap - next[s])]
            /\ next' = [next EXCEPT ![s] = Len(log) - ChannelCap]
       ELSE IF next[s] < Len(log)
       THEN /\ out' = [out EXCEPT ![s] = Received(log[next[s] + 1])]
            /\ next' = [next EXCEPT ![s] = @ + 1]
       ELSE /\ loop = "ended"
            /\ out' = [out EXCEPT ![s] = Closed]
            /\ UNCHANGED next
    /\ UNCHANGED <<event_capacity, loop, frame, reads, pings, pongs, wrote,
                   logged, log, sub, gov_vars, cl_vars, meter_vars, new_vars, color_vars, msg_vars>>

\* Receiver::resubscribe on an active receiver: the new receiver starts at
\* the events sent from now on.
Resubscribe(s) ==
    /\ sub[s] = "none"
    /\ \A r \in Receivers : r < s => sub[r] # "none"
    /\ ActiveReceivers # {}
    /\ sub' = [sub EXCEPT ![s] = "active"]
    /\ next' = [next EXCEPT ![s] = Len(log)]
    /\ UNCHANGED <<event_capacity, loop, frame, reads, pings, pongs, wrote,
                   logged, log, out, gov_vars, cl_vars, meter_vars, new_vars, color_vars, msg_vars>>

\* The receiver is dropped, and what it held with it.
DropReceiver(s) ==
    /\ sub[s] = "active"
    /\ sub' = [sub EXCEPT ![s] = "dropped"]
    /\ next' = [next EXCEPT ![s] = 0]
    /\ out' = [out EXCEPT ![s] = NoOutput]
    /\ UNCHANGED <<event_capacity, loop, frame, reads, pings, pongs, wrote,
                   logged, log, gov_vars, cl_vars, meter_vars, new_vars, color_vars, msg_vars>>

\* The items of the relay model: one of each kind the loop tells apart.
CreatedS1 ==
    [json |-> TRUE, t |-> "ChatMessageCreated", d |-> TRUE, server |-> "S1",
     message |-> TRUE, deleted |-> FALSE]
UpdatedS1 ==
    [json |-> TRUE, t |-> "ChatMessageUpdated", d |-> TRUE, server |-> "S1",
     message |-> TRUE, deleted |-> FALSE]
DeletedS2 ==
    [json |-> TRUE, t |-> "ChatMessageDeleted", d |-> TRUE, server |-> "S2",
     message |-> FALSE, deleted |-> TRUE]
UnknownTag ==
    [json |-> TRUE, t |-> "Unknown", d |-> TRUE, server |-> "S1",
     message |-> TRUE, deleted |-> FALSE]
WrongPayload ==
    [json |-> TRUE, t |-> "ChatMessageCreated", d |-> TRUE, server |-> "S1",
     message |-> FALSE, deleted |-> TRUE]

RelayItems ==
    { ReadError, OtherFrame,
      Text(CreatedS1), Text(DeletedS2), Text(NoText), Text(UnknownTag),
      Text(WrongPayload), Binary(TRUE, UpdatedS1), Binary(TRUE, UnknownTag),
      Binary(FALSE, NoText) }

PingPayloads == {1, 2}

\* The relay model: every kind of item, and the receiver that
\* connect_to_websocket returns.
RelayNext ==
    \/ \E capacity \in 0..MaxCapacity : \E token_ok, connected \in BOOLEAN :
          Connect(capacity, token_ok, connected)
    \/ \E item \in RelayItems : ReadItem(item)
    \/ \E payload \in PingPayloads : ReadPing(payload)
    \/ \E written \in BOOLEAN : WritePong(written)
    \/ ReadEnd
    \/ Recv(1)
    \/ DropReceiver(1)

RelaySpec == Init /\ [][RelayNext]_vars

\* The items of the fan-out model: two events.
FanoutItems == {Text(CreatedS1), Text(DeletedS2)}

\* The fan-out model: every receiver, and the items that matter to the
\* channel.
FanoutNext ==
    \/ \E capacity \in 0..MaxCapacity : \E token_ok, connected \in BOOLEAN :
          Connect(capacity, token_ok, connected)
    \/ \E item \in FanoutItems : ReadItem(item)
    \/ ReadEnd
    \/ \E s \in Receivers : Recv(s)
    \/ \E s \in Receivers : Resubscribe(s)
    \/ \E s \in Receivers : DropReceiver(s)

FanoutSpec == Init /\ [][FanoutNext]_vars

\* ------------------------------------------------------------ definitions
InFlight == {c \in Callers : pc[c] = "inflight"}

\* Permits c's pending acquire_many_owned has been assigned so far.
PendingLockdown(c) ==
    IF pc[c] = "lock_granted" THEN want[c]
    ELSE IF pc[c] = "lock_wait"
    THEN LET i == CHOOSE k \in 1..Len(waiters) : waiters[k].task = c
         IN  want[c] - waiters[i].needed
    ELSE 0

\* Permits withheld by c's throttle lockdown.
LockdownHeld(c) ==
    (IF lockdown_permits[c] >= 0 THEN lockdown_permits[c] ELSE 0) + PendingLockdown(c)

HeldByCalls == Cardinality({c \in Callers : permit[c] = "call"})
HeldByCooldowns == Cardinality({c \in Callers : permit[c] = "cooldown"})
HeldByLockdowns == SumOver(Callers, [c \in Callers |-> LockdownHeld(c)])

\* Permits taken from the pool and not released.
Outstanding == HeldByCalls + HeldByCooldowns + HeldByLockdowns

\* A throttle wait of a call other than c is in progress.
GateClosedFor(c) == \E a \in Callers \ {c} : pc[a] = "sleep" /\ timer[a] > 0

Is2xx(resp) == resp.transport_ok /\ resp.status \in 200..299
Is429(resp) == resp.transport_ok /\ resp.status = 429
Decodable(resp) == resp.body.readable /\ resp.body.json /\ resp.body.payload

\* ------------------------------------------------------------------ claims
\* C1: at most CONCURRENT_REQUEST calls are in flight at any time, and a call
\* in flight holds its permit.
C1_InFlightBounded ==
    /\ Cardinality(InFlight) <= CONCURRENT_REQUEST
    /\ \A c \in InFlight : permit[c] = "call"

\* C1 witness: the pool is exhausted by calls in flight while a caller waits.
C1_Witness ==
    /\ Cardinality(InFlight) = CONCURRENT_REQUEST
    /\ \E c \in Callers : pc[c] = "wait_permit"

\* C2: the permits held by running calls, cooldown tasks and lockdowns
\* together never exceed CONCURRENT_REQUEST.
C2_OutstandingBounded ==
    /\ permits >= 0
    /\ Outstanding <= CONCURRENT_REQUEST

\* C2 witness: the whole pool is out, split over a call, a cooldown task and
\* a lockdown.
C2_Witness ==
    /\ Outstanding = CONCURRENT_REQUEST
    /\ HeldByCalls >= 1
    /\ HeldByCooldowns >= 1
    /\ HeldByLockdowns >= 1

\* C4: while another call's throttle wait is in progress, no caller that is
\* retrying after its own wait, or that got its permit during that wait,
\* begins a request.
C4_NoRequestWhileGateClosed ==
    [][\A c \in Callers :
         (pc[c] = "ready" /\ pc'[c] = "inflight")
         => ~(\E a \in Callers \ {c} :
                /\ pc[a] = "sleep" /\ timer[a] > 0
                /\ (sent[c] >= 1 \/ <<a, hits[a]>> \in gate_seen[c]))]_vars

\* C5: no call is left waiting with nothing able to happen: as long as a call
\* that was made has not returned, some step is possible.
C5_NoCallStuck ==
    (\A c \in Callers : pc[c] \in {"idle", "done"}) \/ ENABLED Next

\* C6: once a call's throttle wait is over, the permits its lockdown withheld
\* are back in the pool.
C6_CapacityBackAfterWait ==
    /\ forgotten = 0
    /\ \A c \in Callers : pc[c] \in {"ready", "inflight", "done"} => LockdownHeld(c) = 0

\* The error an answer amounts to: "Request" for a transport failure,
\* "JsonError" for a body that does not decode, "Guilded" for a structured
\* error, "-" for every other answer.
ParsesAsError(body) == body.json /\ body.code = "string" /\ body.message = "string"

TerminalError(resp) ==
    IF ~resp.transport_ok THEN "Request"
    ELSE IF Is429(resp) THEN "-"
    ELSE IF ~resp.body.readable THEN "Request"
    ELSE IF Is2xx(resp) THEN (IF Decodable(resp) THEN "-" ELSE "JsonError")
    ELSE IF ParsesAsError(resp.body) THEN "Guilded"
    ELSE "JsonError"

\* C3: a call never returns on a 429, and a call that got 429s and then a 2xx
\* with a decodable body returns the decoded result, having sent one request
\* per answer.
C3_RetriedThenSuccess ==
    \A c \in Callers :
        pc[c] = "done" =>
            /\ ~Is429(last[c])
            /\ (hits[c] >= 1 /\ Is2xx(last[c]) /\ Decodable(last[c]))
                 => (result[c] = "Ok" /\ sent[c] = hits[c] + 1)

\* C3 witness: a call returned its result after two 429s.
C3_Witness ==
    \E c \in Callers :
        pc[c] = "done" /\ hits[c] = 2 /\ result[c] = "Ok" /\ sent[c] = 3

\* C7: a call whose first answer is a 2xx with a decodable body returns the
\* decoded result after that one request, and a call that got no 429 has no
\* lockdown.
C7_SuccessWithoutRetry ==
    \A c \in Callers :
        /\ (pc[c] = "done" /\ hits[c] = 0 /\ Is2xx(last[c]) /\ Decodable(last[c]))
             => (result[c] = "Ok" /\ sent[c] = 1)
        /\ hits[c] = 0 => (LockdownHeld(c) = 0 /\ pc[c] \notin {"lock_acquire", "sleep"})

\* C7 witness: a call returned its result after one request.
C7_Witness ==
    \E c \in Callers :
        pc[c] = "done" /\ hits[c] = 0 /\ result[c] = "Ok" /\ sent[c] = 1

\* C8: an answer that is a transport failure, an undecodable body or an error
\* status other than 429 ends the call with that error, with no request after
\* it.
C8_ErrorsAreTerminal ==
    \A c \in Callers :
        (last[c].status # -1 /\ TerminalError(last[c]) # "-")
            => /\ pc[c] = "done"
               /\ result[c] = TerminalError(last[c])
               /\ sent[c] = hits[c] + 1

\* C8 witness: one call ended with a structured error after a retry, another
\* with a transport failure.
C8_Witness ==
    /\ \E c \in Callers : pc[c] = "done" /\ result[c] = "Guilded" /\ hits[c] >= 1
    /\ \E c \in Callers : pc[c] = "done" /\ result[c] = "Request" /\ sent[c] = 1

\* C9: the classification of an answer: a 2xx whose body does not decode is a
\* JsonError; another status than 429 is a Guilded error with the body's meta
\* when the body parses as the structured error and a JsonError when not; and
\* a retry is the outcome of status 429 and of nothing else.
C9_Classification ==
    cl_action.tag # "None" =>
        /\ (Is2xx(cl_resp) /\ cl_resp.body.readable /\ ~from_raw_ok(cl_endpoint, cl_resp.body))
             => cl_action = Return("JsonError", "None")
        /\ (cl_resp.transport_ok /\ ~Is2xx(cl_resp) /\ ~Is429(cl_resp) /\ cl_resp.body.readable)
             => IF ParsesAsError(cl_resp.body)
                THEN cl_action = Return("Guilded",
                                        IF cl_resp.body.meta = "value" THEN "Some" ELSE "None")
                ELSE cl_action = Return("JsonError", "None")
        /\ (cl_action.tag \in {"RetryAfter", "RetryWithBackoff"}) <=> Is429(cl_resp)

\* C9 witness: an error status with a structured body without meta was
\* classified.
C9_Witness ==
    /\ cl_action = Return("Guilded", "None")
    /\ cl_resp.status = 404
    /\ cl_resp.body.meta = "absent"

\* A Retry-After that is absent or is no integer.
NoUsableRetryAfter(resp) ==
    /\ Is429(resp)
    /\ \/ ~resp.retry_after.present
       \/ \E i \in 1..Len(resp.retry_after.bytes) :
             resp.retry_after.bytes[i] \notin (48..57) \cup {43, 45}
       \/ resp.retry_after.bytes = <<>>

RECURSIVE Pow2(_)
Pow2(k) == IF k <= 0 THEN 1 ELSE 2 * Pow2(k - 1)

\* C11: a call starts with a backoff of 20 seconds whatever the other calls
\* have reached, and its k-th 429 without a usable Retry-After waits
\* 20 * 2^(k-1) seconds.
C11_BackoffCallLocalDoubling ==
    [][\A c \in Callers :
         /\ (pc[c] = "idle" /\ pc'[c] # "idle") => backoff_amount'[c] = 20
         /\ (pc[c] # "sleep" /\ pc'[c] = "sleep" /\ NoUsableRetryAfter(last'[c]))
              => (backoffs'[c] >= 1 /\ timer'[c] = 20 * Pow2(backoffs'[c] - 1))]_vars

\* C11 witness: a call is in its second backoff wait, of 40 seconds, while
\* another call has its backoff at 20.
C11_Witness ==
    \E c, d \in Callers :
        /\ pc[c] = "sleep" /\ backoffs[c] = 2 /\ timer[c] = 40
        /\ pc[d] \in {"ready", "inflight"} /\ backoff_amount[d] = 20

\* Permits the queued acquisitions still wait for.
QueuedNeed ==
    SumOver(1..Len(waiters), [i \in 1..Len(waiters) |-> waiters[i].needed])

\* C12: a call that returns, with a result or with an error, has its result
\* at once while its permit goes to the cooldown for 30 seconds; the permit
\* stays withheld while the cooldown has time left, and it is given back
\* once.
C12_CooldownHoldsPermit ==
    [][\A c \in Callers :
         /\ (pc[c] # "done" /\ pc'[c] = "done")
              => /\ result'[c] # "-"
                 /\ permit'[c] = "cooldown"
                 /\ timer'[c] = 30
                 /\ permits' - QueuedNeed' = permits - QueuedNeed
         /\ (permit[c] = "cooldown" /\ timer[c] > 0) => permit'[c] = "cooldown"
         /\ (permit[c] = "cooldown" /\ permit'[c] # "cooldown")
              => /\ permit'[c] = "released"
                 /\ permits' - QueuedNeed' = permits - QueuedNeed + 1
         /\ permit[c] = "released" => permit'[c] = "released"]_vars

\* C12 witness: the permit of a call that ended with an error was given back
\* after its cooldown, and the cooldown of a call that returned its result
\* is running.
C12_Witness ==
    /\ \E c \in Callers :
          permit[c] = "released" /\ result[c] \in {"Request", "JsonError", "Guilded"}
    /\ \E d \in Callers :
          pc[d] = "done" /\ result[d] = "Ok" /\ permit[d] = "cooldown" /\ timer[d] > 0

\* C13: in every window of LOCK_HOLD_DURATION seconds at most
\* CONCURRENT_REQUEST requests are sent, retries counted.
C13_RateKept == Len(window) <= CONCURRENT_REQUEST

\* ----------------------------------------------------------- relay claims
\* A text that is a tagged event: JSON with a known tag t and a payload d
\* that has the server id and the message of that tag.
WellFormed(text) ==
    /\ text.json
    /\ text.t \in {"ChatMessageCreated", "ChatMessageUpdated", "ChatMessageDeleted"}
    /\ text.d
    /\ text.server \in {"S1", "S2"}
    /\ IF text.t = "ChatMessageDeleted" THEN text.deleted ELSE text.message

\* The event a well-formed text stands for.
ExpectedEvent(text) ==
    [tag |-> text.t, server_id |-> text.server,
     message |-> IF text.t = "ChatMessageDeleted" THEN "MessageDeleteData" ELSE "Message"]

\* The step reads a text frame, or a binary frame that converts to text.
ReadsText ==
    /\ reads' = reads + 1
    /\ frame'.kind = "text" \/ (frame'.kind = "binary" /\ frame'.utf8)

\* The capacity given to connect_to_websocket, rounded up to a power of two.
RoundedCapacity ==
    IF event_capacity <= 1 THEN 1
    ELSE CHOOSE p \in {Pow2(k) : k \in 0..6} :
             p >= event_capacity /\ p < 2 * event_capacity

\* The events recv would still give receiver s.
Undelivered(s) ==
    IF Len(log) - next[s] > ChannelCap THEN ChannelCap ELSE Len(log) - next[s]

\* C14 as stated: a ping read makes the loop write one pong, with the
\* ping's payload, and publish no event.
C14_PingGivesOnePong ==
    [][/\ (pings' # pings)
            => (pings' = pings + 1 /\ loop' = "pong" /\ log' = log /\ pongs' = pongs)
       /\ (loop = "pong" /\ loop' # "pong")
            => /\ loop' = "read"
               /\ pongs' = pongs + 1
               /\ wrote' = Pong(frame.payload)
       /\ (loop = "pong") => log' = log
       /\ (pongs' # pongs) => loop = "pong"]_vars

\* C14 as amended: a ping read makes the loop try one write of a pong with
\* the ping's payload: one pong is written, or none when the write fails
\* and the failure is logged; no event is published for the ping.
C14_PingGivesOnePongWrite ==
    [][/\ (pings' # pings)
            => (pings' = pings + 1 /\ loop' = "pong" /\ log' = log /\ pongs' = pongs)
       /\ (loop = "pong" /\ loop' # "pong")
            => /\ loop' = "read"
               /\ \/ /\ pongs' = pongs + 1
                     /\ wrote' = Pong(frame.payload)
                     /\ logged' = logged
                  \/ /\ pongs' = pongs
                     /\ wrote' = wrote
                     /\ logged' = [logged EXCEPT !["pong"] = @ + 1]
       /\ (loop = "pong") => log' = log
       /\ (pongs' # pongs) => loop = "pong"]_vars

\* C14 witness: two pings were read; the pong of one was written, the write
\* of the other failed, and no event was published.
C14_Witness ==
    /\ pings = 2 /\ pongs = 1 /\ logged["pong"] = 1
    /\ loop = "read" /\ log = <<>>
    /\ wrote.kind = "pong"

\* C15: a text frame that is no tagged event is logged and skipped: no event
\* is published, nothing reaches a receiver and the loop reads on; and the
\* well-formed frames read after it are published.
C15_MalformedFrameSwallowed ==
    [][/\ (ReadsText /\ ~WellFormed(frame'.text))
            => /\ log' = log
               /\ loop' = "read"
               /\ logged' = [logged EXCEPT !["decode"] = @ + 1]
               /\ out' = out /\ next' = next
       /\ (logged["decode"] >= 1 /\ ReadsText /\ WellFormed(frame'.text)
              /\ ActiveReceivers # {})
            => /\ log' = Append(log, ExpectedEvent(frame'.text))
               /\ loop' = "read"]_vars

\* C15 witness: the first frame did not decode, the second was an event, and
\* the receiver got it.
C15_Witness ==
    /\ reads = 2 /\ logged["decode"] = 1
    /\ frame = Text(CreatedS1)
    /\ out[1] = Received(Event("ChatMessageCreated", "S1", "Message"))

\* C16 as stated: a well-formed frame is published as the event of its tag
\* with its payload; a receiver starts at the events published after it was
\* made, and passes no event without receiving it.
C16_EveryEventDelivered ==
    [][/\ (ReadsText /\ WellFormed(frame'.text) /\ ActiveReceivers # {})
            => log' = Append(log, ExpectedEvent(frame'.text))
       /\ \A s \in Receivers :
            /\ (sub[s] = "none" /\ sub'[s] = "active") => next'[s] = Len(log')
            /\ (sub[s] = "active" /\ sub'[s] = "active")
                 => \/ next'[s] = next[s]
                    \/ /\ next'[s] = next[s] + 1
                       /\ out'[s] = Received(log[next[s] + 1])]_vars

\* C16 as amended: as stated, but a receiver that is more events behind than
\* the channel has slots passes the oldest ones, and is told so.
C16_EventDeliveredUnlessLagged ==
    [][/\ (ReadsText /\ WellFormed(frame'.text) /\ ActiveReceivers # {})
            => log' = Append(log, ExpectedEvent(frame'.text))
       /\ \A s \in Receivers :
            /\ (sub[s] = "none" /\ sub'[s] = "active") => next'[s] = Len(log')
            /\ (sub[s] = "active" /\ sub'[s] = "active")
                 => \/ next'[s] = next[s]
                    \/ /\ next'[s] = next[s] + 1
                       /\ Len(log) - next[s] <= RoundedCapacity
                       /\ out'[s] = Received(log[next[s] + 1])
                    \/ /\ Len(log) - next[s] > RoundedCapacity
                       /\ next'[s] > next[s]
                       /\ out'[s].tag = "Lagged"]_vars

\* C16 witness: two events were published and both receivers got both.
C16_Witness ==
    /\ Len(log) = 2
    /\ log[1] = Event("ChatMessageCreated", "S1", "Message")
    /\ log[2] = Event("ChatMessageDeleted", "S2", "MessageDeleteData")
    /\ \A s \in {1, 2} : sub[s] = "active" /\ next[s] = 2 /\ out[s] = Received(log[2])

\* C17: whatever the receivers have left unread, the loop can take its next
\* turn: read and handle every kind of item, publishing included, and write
\* the pong of a ping.
C17_LoopNeverBlocked ==
    /\ (loop = "read" /\ reads < MaxFrames)
         => /\ \A item \in RelayItems : ENABLED ReadItem(item)
            /\ \A payload \in PingPayloads : ENABLED ReadPing(payload)
    /\ loop = "pong" => ENABLED WritePong(TRUE)

\* C17 witness: events were published past the full buffer of a receiver
\* that does not receive, and a ping read after them was answered.
C17_Witness ==
    /\ sub[1] = "active" /\ out[1] = NoOutput
    /\ Len(log) - next[1] > ChannelCap
    /\ frame.kind = "ping" /\ loop = "read" /\ pongs = 1

\* The step is a recv of receiver s.
Receives(s) ==
    /\ sub[s] = "active" /\ sub'[s] = "active"
    /\ next'[s] # next[s] \/ out'[s] # out[s]

C19_CloseEndsSubscriptions ==
    /\ (frame = EndOfStream) <=> (loop = "ended")
    /\ loop = "ended" => \A s \in ActiveReceivers : ENABLED Recv(s)
    /\ \A s \in ActiveReceivers :
         out[s] = Closed => (loop = "ended" /\ next[s] = Len(log))

\* C19 witness: the stream ended with events buffered, and every receiver
\* has received them and was told that the channel is closed.
C19_Witness ==
    /\ loop = "ended" /\ Len(log) = 2
    /\ \A s \in Receivers : sub[s] = "active" /\ out[s] = Closed /\ next[s] = 2

\* C20: a read error is logged and nothing else: no event, no pong, and the
\* loop reads on; the frames read after it are handled as usual.
C20_ReadErrorSkipped ==
    [][/\ (reads' = reads + 1 /\ frame' = ReadError)
            => /\ loop' = "read"
               /\ logged' = [logged EXCEPT !["read"] = @ + 1]
               /\ log' = log /\ pongs' = pongs /\ wrote' = wrote
               /\ out' = out /\ next' = next
       /\ (logged["read"] >= 1 /\ ReadsText /\ WellFormed(frame'.text)
              /\ ActiveReceivers # {})
            => log' = Append(log, ExpectedEvent(frame'.text))
       /\ (logged["read"] >= 1 /\ pings' # pings) => loop' = "pong"]_vars

\* C20 witness: the first read failed, the second gave an event, and the
\* receiver got it.
C20_Witness ==
    /\ reads = 2 /\ logged["read"] = 1
    /\ frame = Text(DeletedS2)
    /\ out[1] = Received(Event("ChatMessageDeleted", "S2", "MessageDeleteData"))

\* C21: an event read while the channel has no receiver is not published:
\* the send error is logged, nothing else changes and the loop reads on; the
\* frames read after it are handled as usual and a ping is answered.
C21_SendWithoutReceiverIgnored ==
    [][/\ (ReadsText /\ WellFormed(frame'.text) /\ ActiveReceivers = {})
            => /\ loop' = "read"
               /\ log' = log
               /\ logged' = [logged EXCEPT !["send"] = @ + 1]
               /\ pongs' = pongs /\ wrote' = wrote
               /\ sub' = sub /\ out' = out /\ next' = next
       /\ (logged["send"] >= 1 /\ loop = "read" /\ reads' = reads + 1)
            => loop' \in {"read", "pong"}
       /\ (logged["send"] >= 1 /\ pings' # pings) => loop' = "pong"
       /\ (logged["send"] >= 1 /\ loop = "pong" /\ pongs' # pongs)
            => (loop' = "read" /\ wrote' = Pong(frame.payload))]_vars

\* C21 witness: the receiver was dropped, the first frame was an event that
\* nobody took, the second was a ping, and its pong was written.
C21_Witness ==
    /\ sub[1] = "dropped" /\ log = <<>>
    /\ reads = 2 /\ logged["send"] = 1
    /\ frame = Ping(2) /\ pings = 1 /\ pongs = 1 /\ wrote = Pong(2)
    /\ loop = "read"

\* The token has no control character other than the tab.
HeaderSafe(bytes) ==
    \A i \in 1..Len(bytes) : bytes[i] \notin ((0..31) \ {9}) \cup {127}

\* C22 as stated: Client::new fails and makes no semaphore when the token
\* is not header-safe, and returns a client with a semaphore of
\* CONCURRENT_REQUEST available permits when it is.
C22_HeaderSafeGivesClient ==
    client # "none"
        => IF HeaderSafe(token)
           THEN client = "Ok" /\ permits = CONCURRENT_REQUEST
           ELSE client \notin {"Ok", "none"} /\ permits = 0

\* C22 as amended: as stated, but with a header-safe token Client::new also
\* fails, and makes no semaphore, when the reqwest client cannot be built.
C22_HeaderSafeGivesClientIfBuilt ==
    client # "none"
        => IF HeaderSafe(token)
           THEN \/ client = "Ok" /\ permits = CONCURRENT_REQUEST
                \/ client = "Request" /\ permits = 0
           ELSE client = "Other" /\ permits = 0

\* C22 witness: a token with a tab and a character that is not ASCII gave a
\* client with every permit available.
C22_Witness ==
    /\ token = <<9, 200>>
    /\ client = "Ok"
    /\ permits = CONCURRENT_REQUEST

\* What connect_to_websocket with these arguments does not do.
ConnectNever(capacity, token_ok, connected, outcome, receivers) ==
    ~ENABLED (/\ Connect(capacity, token_ok, connected)
              /\ ~(loop' = outcome /\ ActiveReceivers' = receivers))

\* C23: connect_to_websocket with a token that is no header value, or whose
\* connection fails, returns an error: no loop runs and no receiver exists,
\* then or later, and nothing is read or written.  When it succeeds one
\* loop runs and the one receiver is the one returned.
C23_ConnectFailsClean ==
    /\ loop = "none"
         => \A capacity \in 0..MaxCapacity : \A token_ok, connected \in BOOLEAN :
              /\ ENABLED Connect(capacity, token_ok, connected)
              /\ (~token_ok \/ ~connected)
                   => ConnectNever(capacity, token_ok, connected, "failed", {})
              /\ (token_ok /\ connected /\ capacity > 0)
                   => ConnectNever(capacity, token_ok, connected, "read", {1})
    /\ loop \in {"none", "failed"}
         => /\ ActiveReceivers = {}
            /\ reads = 0 /\ pings = 0 /\ pongs = 0
            /\ frame = NoFrame /\ wrote = NoFrame
            /\ log = <<>> /\ logged = [k \in Diagnostics |-> 0]
    /\ (reads > 0 \/ ActiveReceivers # {}) => loop \in {"read", "pong", "ended"}

\* C23 witness: connect_to_websocket returned an error.
C23_Witness ==
    /\ loop = "failed" /\ event_capacity = 2
    /\ \A s \in Receivers : sub[s] = "none"
    /\ ~ENABLED RelayNext

\* C24: a call that enters or is in a throttle wait keeps the permits its
\* lockdown withheld before: they do not go back to the pool or to other
\* callers while it waits.
C24_LockdownKeptWhileWaiting ==
    [][\A c \in Callers :
         (lockdown_permits[c] > 0 /\ pc'[c] = "sleep")
            => LockdownHeld(c)' >= lockdown_permits[c]]_vars

\* C25: the permits of the pool are conserved: those available and those
\* held by calls, by cooldown tasks and by lockdowns add up to
\* CONCURRENT_REQUEST, so that all are available when nothing runs.
C25_CapacityConserved ==
    permits + Outstanding = CONCURRENT_REQUEST

\* C26: the permits a lockdown asks for are granted: a call that waits for
\* them is never left with no step of any call or timer possible.
C26_LockdownGranted ==
    (\E c \in Callers : pc[c] = "lock_wait") => ENABLED Next

\* The call has its permit and has not returned.
Underway(c) ==
    pc[c] \in {"ready", "inflight", "lock_acquire", "lock_wait", "lock_granted", "sleep"}

\* C27: a call has its own permit from before its first attempt until it
\* returns, through every retry and throttle wait; it acquires it once, and
\* gives it up only when it returns, to its cooldown task.
C27_OwnPermitKept ==
    [][\A c \in Callers :
         /\ Underway(c) => permit[c] = "call"
         /\ Underway(c)' => permit'[c] = "call"
         /\ sent'[c] # sent[c] => (permit[c] = "call" /\ permit'[c] = "call")
         /\ (permit[c] # "call" /\ permit'[c] = "call")
              => (permit[c] = "none" /\ sent[c] = 0 /\ pc'[c] = "ready")
         /\ (permit[c] = "call" /\ permit'[c] # "call")
              => (permit'[c] = "cooldown" /\ pc'[c] = "done" /\ result'[c] # "-")]_vars

\* C27 witness: a call that was throttled twice, once with a Retry-After
\* and once without, is at its third attempt with its permit.
C27_Witness ==
    \E c \in Callers :
        /\ sent[c] = 3 /\ hits[c] = 2 /\ backoffs[c] = 1
        /\ pc[c] = "inflight" /\ permit[c] = "call"

\* C28: the permits a call's lockdown withholds leave the lockdown only in a
\* step of that call: when it replaces the lockdown by a new one, or when
\* it returns.  No step of another caller, and no timer, takes them.
C28_OnlyHolderReleases ==
    [][\A c \in Callers :
         /\ LockdownHeld(c)' < LockdownHeld(c)
              => \/ pc[c] = "lock_granted" /\ pc'[c] = "sleep"
                 \/ pc[c] = "inflight" /\ pc'[c] = "done"
         /\ (pc[c] = "wait_permit" /\ pc'[c] # "wait_permit")
              => /\ pc'[c] = "ready" /\ permit'[c] = "call"
                 /\ LockdownHeld(c) = 0 /\ LockdownHeld(c)' = 0]_vars

\* C28 witness: a call in its second throttle wait has given back the
\* permits of its first lockdown, and a caller that waited for a permit has
\* got one of them.
C28_Witness ==
    \E c, a \in Callers :
        /\ hits[c] = 2 /\ pc[c] = "sleep" /\ timer[c] > 0
        /\ lockdown_permits[c] = 0
        /\ a # c /\ permit[a] = "call" /\ sent[a] = 0
        /\ permits = CONCURRENT_REQUEST - 2 /\ forgotten = 0

\* A 429 whose Retry-After is a decimal number.
UsableRetryAfter(resp) ==
    /\ Is429(resp)
    /\ resp.retry_after.present
    /\ resp.retry_after.bytes # <<>>
    /\ \A i \in 1..Len(resp.retry_after.bytes) : resp.retry_after.bytes[i] \in 48..57

\* The number a sequence of decimal digits stands for.
RECURSIVE Decimal(_)
Decimal(bytes) ==
    IF bytes = <<>> THEN 0
    ELSE 10 * Decimal(SubSeq(bytes, 1, Len(bytes) - 1)) + (bytes[Len(bytes)] - 48)

\* C29: after a 429 with a Retry-After of s seconds the call sleeps s
\* seconds, goes on to its next attempt when they are over, and its backoff
\* amount is what it was; the backoff amount of a call under way changes
\* only by doubling, at the end of a backoff sleep.
C29_RetryAfterKeepsBackoff ==
    [][\A c \in Callers :
         /\ (UsableRetryAfter(last'[c]) /\ pc[c] # "sleep" /\ pc'[c] = "sleep")
              => /\ timer'[c] = Decimal(last'[c].retry_after.bytes)
                 /\ backoff_amount'[c] = backoff_amount[c]
         /\ (UsableRetryAfter(last[c]) /\ pc[c] = "sleep" /\ pc'[c] # "sleep")
              => /\ timer[c] = 0
                 /\ pc'[c] = "ready"
                 /\ backoff_amount'[c] = backoff_amount[c]
         /\ (pc[c] = "sleep" /\ pc'[c] = "sleep")
              => (timer'[c] <= timer[c] /\ backoff_amount'[c] = backoff_amount[c])
         /\ (Underway(c) /\ Underway(c)' /\ backoff_amount'[c] # backoff_amount[c])
              => /\ NoUsableRetryAfter(last[c])
                 /\ pc[c] = "sleep" /\ pc'[c] = "ready"
                 /\ backoff_amount'[c] = 2 * backoff_amount[c]
         /\ Underway(c)
              => backoff_amount[c] \in {INITIAL_BACKOFF * Pow2(backoffs[c]),
                                        IF backoffs[c] >= 1
                                        THEN INITIAL_BACKOFF * Pow2(backoffs[c] - 1)
                                        ELSE INITIAL_BACKOFF}]_vars

\* C29 witness: a call was answered a 429 without Retry-After and then a
\* 429 with Retry-After 5: it is at its third attempt with a backoff amount
\* of 40.
C29_Witness ==
    \E c \in Callers :
        /\ sent[c] = 3 /\ hits[c] = 2 /\ backoffs[c] = 1
        /\ pc[c] = "inflight"
        /\ last[c].retry_after = [present |-> TRUE, bytes |-> <<53>>]
        /\ backoff_amount[c] = 2 * INITIAL_BACKOFF

\* C30: whatever the caller does, a request that was sent is answered, and
\* a call that has sent one gives up its permit only by returning, to the
\* cooldown task that holds it for 30 seconds more.
C30_AbandonedCallCompletes ==
    [][\A c \in Callers :
         /\ (pc[c] = "inflight" /\ pc'[c] # "inflight")
              => pc'[c] \in {"done", "lock_acquire"}
         /\ (permit[c] = "call" /\ sent[c] > 0 /\ permit'[c] # "call")
              => /\ permit'[c] = "cooldown"
                 /\ timer'[c] = LOCK_HOLD_DURATION
                 /\ result'[c] # "-"]_vars

\* C31: the loop writes nothing but pongs: a frame is written only as the
\* answer to the ping read last, with that ping's payload, and never more
\* pongs are written than pings were read.
C31_OnlyPongsWritten ==
    [][/\ wrote \in {NoFrame} \cup {Pong(payload) : payload \in PingPayloads}
       /\ pongs <= pings /\ pongs' <= pings'
       /\ (pongs' # pongs \/ wrote' # wrote)
            => /\ loop = "pong" /\ frame.kind = "ping"
               /\ frame.payload \in PingPayloads
               /\ wrote' = Pong(frame.payload)
               /\ pongs' = pongs + 1
       /\ (loop # "pong") => (wrote' = wrote /\ pongs' = pongs)]_vars

\* C31 witness: two pings with different payloads were read and answered,
\* the second with its own payload, between frames of other kinds.
C31_Witness ==
    /\ pings = 2 /\ pongs = 2
    /\ frame = Text(CreatedS1) /\ reads = 4
    /\ wrote = Pong(2) /\ logged["kind"] = 1

\* C32: a message of another kind (pong, close, raw frame) is logged and
\* nothing else: no event, no write, and the loop reads on; the loop ends
\* at the end of the stream and at nothing else.
C32_OtherKindSkipped ==
    [][/\ (reads' = reads + 1 /\ frame' = OtherFrame)
            => /\ loop' = "read"
               /\ logged' = [logged EXCEPT !["kind"] = @ + 1]
               /\ log' = log /\ pongs' = pongs /\ wrote' = wrote
               /\ out' = out /\ next' = next /\ sub' = sub
       /\ (loop # "ended" /\ loop' = "ended")
            => (loop = "read" /\ frame' = EndOfStream /\ reads' = reads)
       /\ (logged["kind"] >= 1 /\ ReadsText /\ WellFormed(frame'.text)
              /\ ActiveReceivers # {})
            => log' = Append(log, ExpectedEvent(frame'.text))]_vars

\* C32 witness: the first message was of another kind, the second an event
\* that the receiver got, and then the stream ended.
C32_Witness ==
    /\ reads = 2 /\ logged["kind"] = 1
    /\ log = <<Event("ChatMessageCreated", "S1", "Message")>>
    /\ out[1] = Received(log[1])
    /\ frame = EndOfStream /\ loop = "ended"
    /\ pongs = 0 /\ wrote = NoFrame

\* What the step does with the text it read: it publishes the event the
\* text stands for, or logs that it does not decode.
HandledAsText ==
    IF ~WellFormed(frame'.text)
    THEN /\ log' = log
         /\ logged' = [logged EXCEPT !["decode"] = @ + 1]
    ELSE IF ActiveReceivers = {}
    THEN /\ log' = log
         /\ logged' = [logged EXCEPT !["send"] = @ + 1]
    ELSE /\ log' = Append(log, ExpectedEvent(frame'.text))
         /\ logged' = logged

\* C33: a binary message whose bytes are UTF-8 is handled as the text
\* message of the same content is: published when it is an event, logged as
\* undecodable when it is not.  One whose bytes are not UTF-8 is logged and
\* skipped: no event, and the loop reads on.
C33_BinaryAsText ==
    [][/\ (reads' = reads + 1 /\ frame'.kind = "text") => HandledAsText
       /\ (reads' = reads + 1 /\ frame'.kind = "binary")
            => /\ loop' = "read"
               /\ pongs' = pongs /\ wrote' = wrote /\ sub' = sub
               /\ out' = out /\ next' = next
               /\ IF frame'.utf8
                  THEN HandledAsText
                  ELSE /\ log' = log
                       /\ logged' = [logged EXCEPT !["utf8"] = @ + 1]]_vars

\* C33 witness: a binary message that is not UTF-8 was skipped, and the
\* event of the binary message read after it reached the receiver.
C33_Witness ==
    /\ reads = 2 /\ logged["utf8"] = 1
    /\ frame = Binary(TRUE, UpdatedS1)
    /\ log = <<Event("ChatMessageUpdated", "S1", "Message")>>
    /\ out[1] = Received(log[1])
    /\ loop = "read"

\* C34: events are published in the order their frames are read, and a
\* receiver goes through them in that order, forward only: what it
\* receives is the event after the one it received before, or, after it
\* was told that it lagged, a later one.  A receiver starts at the events
\* published after it was made, so one that never lags receives exactly
\* those, in order.
C34_InOrderAtMostOnce ==
    [][/\ \/ log' = log
          \/ /\ ReadsText
             /\ log' = Append(log, ExpectedEvent(frame'.text))
       /\ \A s \in Receivers :
            /\ (sub[s] = "none" /\ sub'[s] = "active") => next'[s] = Len(log')
            /\ sub[s] = "active" => next[s] <= Len(log)
            /\ (sub[s] = "active" /\ out[s].tag = "Ok")
                 => (next[s] >= 1 /\ out[s].event = log[next[s]])
            /\ Receives(s)
                 => /\ next'[s] >= next[s]
                    /\ out'[s].tag = "Ok"
                         => /\ next'[s] = next[s] + 1
                            /\ out'[s].event = log[next[s] + 1]
                    /\ out'[s].tag = "Lagged"
                         => /\ next'[s] = next[s] + out'[s].missed
                            /\ out'[s].missed >= 1
                    /\ out'[s].tag = "Closed" => next'[s] = next[s]]_vars

\* C34 witness: three events were published, the first two different; the
\* first receiver has received all three and the second, made after the
\* first event, the two after it.
C34_Witness ==
    /\ Len(log) = 3 /\ log[1] # log[2] /\ event_capacity = 3
    /\ sub[1] = "active" /\ next[1] = 3 /\ out[1] = Received(log[3])
    /\ sub[2] = "active" /\ next[2] = 3 /\ out[2] = Received(log[3])
    /\ reads = 3

\* C35: the pong that cannot be written is logged and nothing else: no
\* event, no end of the loop; the frames read after it are handled as
\* usual, events published and pings answered.
C35_PongFailureSkipped ==
    [][/\ (loop = "pong" /\ loop' # "pong" /\ pongs' = pongs)
            => /\ loop' = "read"
               /\ logged' = [logged EXCEPT !["pong"] = @ + 1]
               /\ log' = log /\ wrote' = wrote
               /\ out' = out /\ next' = next /\ sub' = sub
       /\ (logged["pong"] >= 1 /\ loop # "ended" /\ loop' = "ended")
            => frame' = EndOfStream
       /\ (logged["pong"] >= 1 /\ ReadsText /\ WellFormed(frame'.text)
              /\ ActiveReceivers # {})
            => log' = Append(log, ExpectedEvent(frame'.text))
       /\ (logged["pong"] >= 1 /\ pings' # pings) => loop' = "pong"]_vars

\* C35 witness: the pong of the first frame, a ping, could not be written;
\* the second frame was an event and the receiver got it.
C35_Witness ==
    /\ reads = 2 /\ pings = 1 /\ pongs = 0 /\ logged["pong"] = 1
    /\ wrote = NoFrame
    /\ frame = Text(DeletedS2)
    /\ out[1] = Received(Event("ChatMessageDeleted", "S2", "MessageDeleteData"))
    /\ loop = "read"

\* The number a string of hexadecimal digits stands for; -1 when it is none.
RECURSIVE HexValue(_, _)
HexValue(t, acc) ==
    IF t = <<>> THEN acc
    ELSE LET d == IF Head(t) \in 48..57 THEN Head(t) - 48
                  ELSE IF Head(t) \in 65..70 THEN Head(t) - 55
                  ELSE IF Head(t) \in 97..102 THEN Head(t) - 87
                  ELSE -1
         IN  IF d < 0 \/ acc < 0 THEN -1 ELSE HexValue(Tail(t), acc * 16 + d)

\* The string without its leading '#'.
Unhashed(t) == IF t # <<>> /\ t[1] = 35 THEN Tail(t) ELSE t

\* The string is six hexadecimal digits, with or without a leading '#'.
IsHexColor(t) == Len(Unhashed(t)) = 6 /\ HexValue(Unhashed(t), 0) >= 0

\* The colour a hex colour string denotes.
Denoted(t) ==
    <<HexValue(SubSeq(Unhashed(t), 1, 2), 0),
      HexValue(SubSeq(Unhashed(t), 3, 4), 0),
      HexValue(SubSeq(Unhashed(t), 5, 6), 0)>>

\* C36: from_hex gives the colour a hex colour string denotes, with or
\* without the '#'; from_hex of to_hex of a colour is that colour; and a
\* string that is not 6 long after the '#' is an error.
C36_HexRoundTrip ==
    /\ c_out.op = "from_hex(to_hex)"
         => (c_out.tag = "Ok" /\ c_out.color = c_in.color)
    /\ c_out.op = "from_hex"
         => /\ Len(Unhashed(c_in.hex)) # 6 => c_out.tag = "Err"
            /\ IsHexColor(c_in.hex)
                 => (c_out.tag = "Ok" /\ c_out.color = Denoted(c_in.hex))

\* C37: a colour made into a u32 and back is the same colour; a u32 made
\* into a colour and back is its low 24 bits; neither conversion panics.
C37_WordRoundTrip ==
    /\ c_out.op = "Color::from(u32::from)"
         => /\ c_out.tag = "Ok"
            /\ c_out.color = c_in.color
            /\ c_out.word[1] <= 255
    /\ c_out.op = "u32::from(Color::from)"
         => /\ c_out.tag = "Ok"
            /\ c_out.word[2] = c_in.word[2]
            /\ c_out.word[1] <= 255
            /\ \E top \in 0..255 : c_in.word[1] = top * 256 + c_out.word[1]

\* C37 witness: the u32 with every bit set became white and came back as
\* 0x00FFFFFF.
C37_Witness ==
    /\ c_in.kind = "word" /\ c_in.word = <<65535, 65535>>
    /\ c_out.op = "u32::from(Color::from)" /\ c_out.tag = "Ok"
    /\ c_out.color = <<255, 255, 255>>
    /\ c_out.word = <<255, 65535>>

\* C38: every MessageCreate has its content or an embed, after either
\* constructor and after any sequence of the builder methods.
C38_ContentOrEmbed ==
    msg.made => (msg.content.some \/ msg.embeds.some)

\* C38 witness: a message made with an embed only, after private, silent
\* and two replies, has no content.
C38_Witness ==
    /\ msg.made
    /\ ~msg.content.some
    /\ msg.embeds.some
    /\ msg.private.some /\ msg.silent.some
    /\ msg.reply_message_ids.some /\ Len(msg.reply_message_ids.v) = 2

\* C39: the permits that exist, available or held by a call or by its
\* cooldown, are never fewer than one: what the lockdowns have taken and
\* forgotten leaves at least the permit of a call.
C39_CapacityNeverZero ==
    /\ permits + HeldByCalls + HeldByCooldowns >= 1
    /\ forgotten <= CONCURRENT_REQUEST - 1

\* C39 witness: a lockdown of every other permit has been forgotten and the
\* cooldown of its call has elapsed: the pool is down to its last permit.
C39_Witness ==
    /\ forgotten = CONCURRENT_REQUEST - 1
    /\ permits = 1
    /\ HeldByCalls = 0 /\ HeldByCooldowns = 0
    /\ \E c \in Callers : pc[c] = "done" /\ hits[c] > 0

====
